---- MODULE Spec2Model ----
(***************************************************************************)
(* State-machine model of the Diskomator firmware (esp32-partylight).      *)
(*                                                                         *)
(* Part 1: the BLE peripheral of src/mcu/src/bluetooth.rs: the             *)
(* advertise/connect loop of run(), the per-connection gatt_events_task    *)
(* with its OtaState, the RSSI custom_task, and the attribute table of     *)
(* the GATT server (config_data, ota_control, ota_hash, ota_status).       *)
(*                                                                         *)
(* Conventions                                                             *)
(*   - a Rust Option is a sequence of length 0 (None) or 1 (Some(x));       *)
(*   - a byte string is a sequence of numbers 0..255;                      *)
(*   - one action is one poll of a task from one await point to the next.  *)
(***************************************************************************)
EXTENDS Integers, Sequences, FiniteSets, TLC

VARIABLES
    phase,          \* run(): "advertising" | "connected" | "reset" | "panicked"
    link,           \* the radio link of the current connection: "up" | "down"
    pc,             \* gatt_events_task: "next" (conn.next().await) | "reply" (reply.send().await)
                    \* | "yield" (yield_now().await)
    custom_pc,      \* custom_task: "rssi" (rssi().await) | "timer" (Timer::after_secs(2).await)
    ota_state,      \* the OtaState local of gatt_events_task (current or most recent connection)
    ota_control,    \* attribute table: ota_control (u8)
    ota_status,     \* attribute table: ota_status (u8)
    ota_hash,       \* attribute table: ota_hash (heapless::Vec<u8, 32>)
    config_data,    \* attribute table: config_data (heapless::Vec<u8, 200>)
    config_signal,  \* CONFIG_SIGNAL: Option<AppConfig>
    bootable,       \* flash: TRUE once OtaUpdater::complete() has marked the new partition bootable
    last_event,     \* kind of the GATT event handled last on this connection
    last_data,      \* payload of that event
    result,         \* the response the handler built for that event ("NONE": it built none)
    reply,          \* ATT response sent for that event ("NONE": no response was sent)
    fx,             \* calls made by the last step, in order: flash updater, reset, notifications
    hash_accepted,  \* a 32-byte ota_hash write was accepted on this connection
    begin_accepted, \* a Begin was accepted on this connection
    cut_mid_update, \* some earlier connection ended while its updater existed
    since_mismatch, \* "rejected": the last event was a Commit rejected for a hash mismatch;
                    \* "begun": the last two were such a Commit and a Begin; else "none"
    unseen,         \* configs signalled since the processing task last took one (2: two or more)
    proc_pc,        \* processing task: "wait_config" | "check" | "receive"
    current_config, \* processing task: Option of its current_config local
    neopixel_signal,\* NEOPIXEL_SIGNAL: Option of a framebuffer
    led_pc,         \* neopixel_task: "demo" | "demo_write" | "wait" | "write"
    published,      \* the framebuffers the renderer has published, in order
    transmitted,    \* the framebuffers neopixel_task's loop has handed to the driver, in order
    unit,           \* a function applied on its own: [fn, arg, out]
    render_in,      \* pattern rendering: the pattern variant, channel strengths and colours
    frame,          \* pattern rendering: the 256-entry framebuffer returned
    writes,         \* pattern rendering: how often the pattern wrote each entry
    usb_link,       \* the host's audio stream: "up" | "down"
    stream_pc,      \* usb_streaming_task: "wait_connection" | "read" | "send"
    in_hand,        \* stream_handler: Option of the packet it holds while send() waits
    zc,             \* zero-copy channel: the sample blocks sent and not yet released
    recv_pc,        \* usb_audio_receiver_task: "receive" | "send"
    audio_channel,  \* AUDIO_BUFFER_CHANNEL: the boxes queued for the processing task
    sessions,       \* how often wait_connection() has returned (2: twice or more)
    arrived,        \* the well-formed packets read, in order
    delivered,      \* the boxes the processing task has received, in order
    cfg,            \* codec: the AppConfig handed to to_bytes / process_fft
    encoded,        \* codec: Option of the bytes to_bytes::<200> returned
    decoded,        \* codec: Option of the AppConfig from_bytes returned
    calc,           \* calculate_channel: the bins it read, or that it panicked
    pure_pc         \* "off" | "start" | "encoded" | "decoded" | "calculated"

ble_vars == <<phase, link, pc, custom_pc, ota_state, ota_control, ota_status, ota_hash,
              config_data, config_signal, bootable, last_event, last_data, result,
                   reply, fx,
              hash_accepted, begin_accepted, cut_mid_update, since_mismatch,
              unseen>>

\* The BLE state but phase, config_signal and unseen.
ble_rest == <<link, pc, custom_pc, ota_state, ota_control, ota_status, ota_hash,
              config_data, bootable, last_event, last_data, result,
                   reply, fx,
              hash_accepted, begin_accepted, cut_mid_update, since_mismatch>>

pipe_vars == <<proc_pc, current_config, neopixel_signal, led_pc, published, transmitted>>

pure_vars == <<cfg, encoded, decoded, calc, pure_pc>>

fun_vars == <<unit, render_in, frame, writes>>

usb_vars == <<usb_link, stream_pc, in_hand, zc, recv_pc, audio_channel, sessions,
              arrived, delivered>>

vars == <<ble_vars, pure_vars, pipe_vars, fun_vars, usb_vars>>

\* What the codec steps and the pipeline steps leave alone.
not_pure == <<ble_vars, pipe_vars, fun_vars, usb_vars>>
off_pipe == <<pure_vars, fun_vars, usb_vars>>

\* What a step of the BLE tasks leaves alone.
not_ble == <<pure_vars, pipe_vars, fun_vars, usb_vars>>

(***************************************************************************)
(* Bounds of the model.                                                    *)
(***************************************************************************)
MaxChunk == 2       \* longest ota_data payload the central sends
MaxImage == 2       \* largest number of firmware bytes received in one update

(***************************************************************************)
(* Program constants.                                                      *)
(***************************************************************************)
OTA_CMD_BEGIN == 1
OTA_CMD_COMMIT == 2
OTA_CMD_ABORT == 3

OTA_STATUS_IDLE == 0
OTA_STATUS_IN_PROGRESS == 1
OTA_STATUS_SUCCESS == 2
OTA_STATUS_ERROR == 3

HashLen == 32
ConfigDataCapacity == 200

None == <<>>
Some(x) == <<x>>
IsSome(o) == o # <<>>
IsNone(o) == o = <<>>

(***************************************************************************)
(* Byte strings used as inputs.                                            *)
(***************************************************************************)
DataBytes == {99, 100}

SeqsUpTo(S, n) == UNION {[1..k -> S] : k \in 0..n}

Chunks == SeqsUpTo(DataBytes, MaxChunk)
Images == SeqsUpTo(DataBytes, MaxImage)

(***************************************************************************)
(* SHA-256.  The digest is a 32-byte string.  The compression function is  *)
(* not computed; the digest is a collision-free stand-in (length byte,     *)
(* then the message, zero padded), which is all the handler relies on:     *)
(* it only compares the digest with the expected hash.                     *)
(***************************************************************************)
Sha256New == <<>>
Sha256Update(h, data) == h \o data
Sha256Finalize(h) ==
    [i \in 1..HashLen |-> IF i = 1 THEN Len(h)
                          ELSE IF i - 1 <= Len(h) THEN h[i - 1] ELSE 0]

(***************************************************************************)
(* OtaState and the four OTA functions.  Each returns the new OtaState,    *)
(* whether it returned Ok, and the calls it made on the flash updater.     *)
(* The outcome of a flash operation (OtaUpdater::new, write, complete) is  *)
(* an input: TRUE for Ok, FALSE for Err.                                   *)
(***************************************************************************)
\* Variant: the OtaState outlives the connection (as a static would).
KeptOtaState == ota_state

\* Variant: a new connection takes its expected hash from the ota_hash
\* characteristic.
OtaStateFromCharacteristic ==
    [ota_updater |-> None, bytes_received |-> 0,
     expected_hash |-> IF Len(ota_hash) = HashLen THEN Some(ota_hash) ELSE None,
     hasher |-> None]

NewOtaState ==
    [ota_updater |-> None, bytes_received |-> 0, expected_hash |-> None, hasher |-> None]

\* Variant: a Begin during an update starts the update over.
begin_ota_restarts(st, new_ok) ==
    IF IsNone(st.expected_hash) THEN
        [ok |-> FALSE, st |-> st, fx |-> <<>>, reset |-> FALSE]
    ELSE IF ~new_ok THEN
        [ok |-> FALSE, st |-> st, fx |-> <<"new">>, reset |-> FALSE]
    ELSE
        [ok |-> TRUE,
         st |-> [st EXCEPT !.ota_updater = Some(<<>>),
                           !.bytes_received = 0,
                           !.hasher = Some(Sha256New)],
         fx |-> <<"new">>, reset |-> FALSE]

begin_ota(st, new_ok) ==
    IF IsSome(st.ota_updater) THEN
        [ok |-> FALSE, st |-> st, fx |-> <<>>, reset |-> FALSE]
    ELSE IF IsNone(st.expected_hash) THEN
        [ok |-> FALSE, st |-> st, fx |-> <<>>, reset |-> FALSE]
    ELSE IF ~new_ok THEN
        [ok |-> FALSE, st |-> st, fx |-> <<"new">>, reset |-> FALSE]
    ELSE
        [ok |-> TRUE,
         st |-> [st EXCEPT !.ota_updater = Some(<<>>),
                           !.bytes_received = 0,
                           !.hasher = Some(Sha256New)],
         fx |-> <<"new">>, reset |-> FALSE]

\* Variant: bytes_received counts the chunks instead of their bytes.
write_ota_data_counts_chunks(st, data, write_ok) ==
    IF IsNone(st.ota_updater) THEN
        [ok |-> FALSE, st |-> st, fx |-> <<>>, reset |-> FALSE]
    ELSE IF IsNone(st.hasher) THEN
        [ok |-> FALSE, st |-> st, fx |-> <<>>, reset |-> FALSE]
    ELSE IF ~write_ok THEN
        [ok |-> FALSE, st |-> st, fx |-> <<"write">>, reset |-> FALSE]
    ELSE
        [ok |-> TRUE,
         st |-> [st EXCEPT !.ota_updater = Some(st.ota_updater[1] \o data),
                           !.hasher = Some(Sha256Update(st.hasher[1], data)),
                           !.bytes_received = st.bytes_received + 1],
         fx |-> <<"write">>, reset |-> FALSE]

write_ota_data(st, data, write_ok) ==
    IF IsNone(st.ota_updater) THEN
        [ok |-> FALSE, st |-> st, fx |-> <<>>, reset |-> FALSE]
    ELSE IF IsNone(st.hasher) THEN
        [ok |-> FALSE, st |-> st, fx |-> <<>>, reset |-> FALSE]
    ELSE IF ~write_ok THEN
        [ok |-> FALSE, st |-> st, fx |-> <<"write">>, reset |-> FALSE]
    ELSE
        [ok |-> TRUE,
         st |-> [st EXCEPT !.ota_updater = Some(st.ota_updater[1] \o data),
                           !.hasher = Some(Sha256Update(st.hasher[1], data)),
                           !.bytes_received = st.bytes_received + Len(data)],
         fx |-> <<"write">>, reset |-> FALSE]

\* Variant: Commit does not compare the digest with the expected hash.
commit_ota_unverified(st, complete_ok) ==
    IF IsNone(st.ota_updater) THEN
        [ok |-> FALSE, st |-> st, fx |-> <<>>, reset |-> FALSE,
         err |-> "OTA not started"]
    ELSE IF ~complete_ok THEN
        [ok |-> FALSE, st |-> [st EXCEPT !.ota_updater = None, !.hasher = None],
         fx |-> <<"complete">>, reset |-> FALSE,
         err |-> "Failed to complete OTA update"]
    ELSE
        [ok |-> FALSE, st |-> [st EXCEPT !.ota_updater = None, !.hasher = None],
         fx |-> <<"complete", "reset">>, reset |-> TRUE, err |-> ""]

\* Variant: a hash mismatch also forgets the expected hash.
commit_ota_forgets_hash(st, complete_ok) ==
    IF IsNone(st.ota_updater) THEN
        [ok |-> FALSE, st |-> st, fx |-> <<>>, reset |-> FALSE,
         err |-> "OTA not started"]
    ELSE IF IsNone(st.hasher) THEN
        [ok |-> FALSE, st |-> [st EXCEPT !.ota_updater = None],
         fx |-> <<>>, reset |-> FALSE, err |-> "Hasher not initialized"]
    ELSE IF IsNone(st.expected_hash) THEN
        [ok |-> FALSE, st |-> [st EXCEPT !.ota_updater = None, !.hasher = None],
         fx |-> <<>>, reset |-> FALSE, err |-> "Expected hash not set"]
    ELSE IF Sha256Finalize(st.hasher[1]) # st.expected_hash[1] THEN
        [ok |-> FALSE,
         st |-> [st EXCEPT !.ota_updater = None, !.hasher = None,
                           !.expected_hash = None],
         fx |-> <<>>, reset |-> FALSE, err |-> "Hash validation failed"]
    ELSE IF ~complete_ok THEN
        [ok |-> FALSE, st |-> [st EXCEPT !.ota_updater = None, !.hasher = None],
         fx |-> <<"complete">>, reset |-> FALSE,
         err |-> "Failed to complete OTA update"]
    ELSE
        [ok |-> FALSE, st |-> [st EXCEPT !.ota_updater = None, !.hasher = None],
         fx |-> <<"complete", "reset">>, reset |-> TRUE, err |-> ""]

\* commit_ota() calls software_reset() itself once complete() has returned Ok;
\* software_reset() does not return, so commit_ota() never returns Ok.
commit_ota(st, complete_ok) ==
    IF IsNone(st.ota_updater) THEN
        [ok |-> FALSE, st |-> st, fx |-> <<>>, reset |-> FALSE,
         err |-> "OTA not started"]
    ELSE IF IsNone(st.hasher) THEN
        [ok |-> FALSE, st |-> [st EXCEPT !.ota_updater = None],
         fx |-> <<>>, reset |-> FALSE, err |-> "Hasher not initialized"]
    ELSE IF IsNone(st.expected_hash) THEN
        [ok |-> FALSE, st |-> [st EXCEPT !.ota_updater = None, !.hasher = None],
         fx |-> <<>>, reset |-> FALSE, err |-> "Expected hash not set"]
    ELSE IF Sha256Finalize(st.hasher[1]) # st.expected_hash[1] THEN
        [ok |-> FALSE, st |-> [st EXCEPT !.ota_updater = None, !.hasher = None],
         fx |-> <<>>, reset |-> FALSE, err |-> "Hash validation failed"]
    ELSE IF ~complete_ok THEN
        [ok |-> FALSE, st |-> [st EXCEPT !.ota_updater = None, !.hasher = None],
         fx |-> <<"complete">>, reset |-> FALSE,
         err |-> "Failed to complete OTA update"]
    ELSE
        [ok |-> FALSE, st |-> [st EXCEPT !.ota_updater = None, !.hasher = None],
         fx |-> <<"complete", "reset">>, reset |-> TRUE, err |-> ""]

\* Variant: Abort keeps the expected hash.
abort_ota_keeps_hash(st) ==
    [ok |-> TRUE,
     st |-> [st EXCEPT !.ota_updater = None,
                       !.bytes_received = 0,
                       !.hasher = None],
     fx |-> IF IsSome(st.ota_updater) THEN <<"abort">> ELSE <<>>,
     reset |-> FALSE]

\* Variant: Abort drops the updater but keeps the hasher.
abort_ota_keeps_hasher(st) ==
    [ok |-> TRUE,
     st |-> [st EXCEPT !.ota_updater = None,
                       !.bytes_received = 0,
                       !.expected_hash = None],
     fx |-> IF IsSome(st.ota_updater) THEN <<"abort">> ELSE <<>>,
     reset |-> FALSE]

abort_ota(st) ==
    [ok |-> TRUE,
     st |-> [st EXCEPT !.ota_updater = None,
                       !.bytes_received = 0,
                       !.hasher = None,
                       !.expected_hash = None],
     fx |-> IF IsSome(st.ota_updater) THEN <<"abort">> ELSE <<>>,
     reset |-> FALSE]

(***************************************************************************)
(* AppConfig and its postcard wire format (src/common/src/config.rs).      *)
(*                                                                         *)
(* An unsigned integer is kept as its little-endian base-128 digits with   *)
(* the leading zero digits removed (zero is the empty sequence), so that   *)
(* the full u32/u64 range is covered without large numbers.  An f32 is     *)
(* kept as its four little-endian bytes (its bit pattern).                 *)
(***************************************************************************)
RECURSIVE ToLimbs(_)
ToLimbs(n) == IF n = 0 THEN <<>> ELSE <<n % 128>> \o ToLimbs(n \div 128)

RECURSIVE StripLimbs(_)
StripLimbs(l) ==
    IF l = <<>> THEN <<>>
    ELSE IF l[Len(l)] = 0 THEN StripLimbs(SubSeq(l, 1, Len(l) - 1))
    ELSE l

\* Variant: the continuation bit is never set.
EncodeVarint_no_continuation(l) ==
    IF l = <<>> THEN <<0>> ELSE l

\* postcard varint: seven bits per byte, least significant group first,
\* the top bit set on every byte but the last.
EncodeVarint(l) ==
    IF l = <<>> THEN <<0>>
    ELSE [i \in 1..Len(l) |-> IF i < Len(l) THEN l[i] + 128 ELSE l[i]]

Bad == [ok |-> FALSE, val |-> <<>>, pos |-> 0]
Good(v, p) == [ok |-> TRUE, val |-> v, pos |-> p]

\* Sequencing of two decoding steps: r is the outcome of the first, F the
\* rest of the decoder given that outcome; an Err ends the decoding.
Then(r, F(_)) == CHOOSE y \in {IF x.ok THEN F(x) ELSE Bad : x \in {r}} : TRUE

\* postcard try_take_varint_*: at most maxBytes bytes; the last of maxBytes
\* bytes may not exceed maxLast; an encoding with leading zero groups is taken.
RECURSIVE VarintLoop(_, _, _, _, _, _)
VarintLoop(data, pos, i, acc, maxBytes, maxLast) ==
    IF i >= maxBytes \/ pos > Len(data) THEN Bad
    ELSE LET val == data[pos]
         IN  IF val < 128
             THEN IF i = maxBytes - 1 /\ val > maxLast THEN Bad
                  ELSE Good(StripLimbs(Append(acc, val)), pos + 1)
             ELSE VarintLoop(data, pos + 1, i + 1, Append(acc, val % 128),
                             maxBytes, maxLast)

\* u32: at most 5 bytes, the fifth at most 0x0F; u64: at most 10, the tenth at most 1.
TakeU32(data, pos) == VarintLoop(data, pos, 0, <<>>, 5, 15)
TakeU64(data, pos) == VarintLoop(data, pos, 0, <<>>, 10, 1)

\* usize travels as a u64 varint; on the 32-bit target a value of 2^32 or
\* more does not convert to usize and is refused.
FitsU32(l) == Len(l) < 5 \/ (Len(l) = 5 /\ l[5] <= 15)

TakeUsize(data, pos) ==
    Then(TakeU64(data, pos), LAMBDA r : IF FitsU32(r.val) THEN r ELSE Bad)

\* A unit enum variant: a u32 varint index below the number of variants.
TakeVariant(data, pos, count) ==
    Then(TakeU32(data, pos), LAMBDA r :
         IF r.val \in {ToLimbs(k) : k \in 0..(count - 1)}
         THEN Good(IF r.val = <<>> THEN 0 ELSE r.val[1], r.pos)
         ELSE Bad)

TakeU8(data, pos) == IF pos > Len(data) THEN Bad ELSE Good(data[pos], pos + 1)

TakeBool(data, pos) ==
    IF pos > Len(data) THEN Bad
    ELSE IF data[pos] = 0 THEN Good(FALSE, pos + 1)
    ELSE IF data[pos] = 1 THEN Good(TRUE, pos + 1)
    ELSE Bad

TakeF32(data, pos) ==
    IF pos + 3 > Len(data) THEN Bad ELSE Good(SubSeq(data, pos, pos + 3), pos + 4)

AggregationCount == 3
PatternCount == 3
FFTSizeCount == 3

TakeColor(data, pos) ==
    Then(TakeF32(data, pos), LAMBDA r :
    Then(TakeF32(data, r.pos), LAMBDA g :
    Then(TakeF32(data, g.pos), LAMBDA b :
    Good(<<r.val, g.val, b.val>>, b.pos))))

TakeChannelConfig(data, pos) ==
    Then(TakeUsize(data, pos), LAMBDA s :
    Then(TakeUsize(data, s.pos), LAMBDA e :
    Then(TakeF32(data, e.pos), LAMBDA pm :
    Then(TakeF32(data, pm.pos), LAMBDA ng :
    Then(TakeU8(data, ng.pos), LAMBDA ex :
    Then(TakeColor(data, ex.pos), LAMBDA co :
    Then(TakeVariant(data, co.pos, AggregationCount), LAMBDA ag :
    Good([start_index |-> s.val, end_index |-> e.val, premult |-> pm.val,
          noise_gate |-> ng.val, exponent |-> ex.val, color |-> co.val,
          aggregate |-> ag.val], ag.pos))))))))

\* [ChannelConfig; n]: the elements one after the other, no length prefix.
RECURSIVE TakeChannels(_, _, _, _)
TakeChannels(data, pos, n, acc) ==
    IF n = 0 THEN Good(acc, pos)
    ELSE Then(TakeChannelConfig(data, pos), LAMBDA c :
              TakeChannels(data, c.pos, n - 1, Append(acc, c.val)))

\* NeopixelMatrixPattern: 0 = Stripes([_; 4]), 1 = Bars([_; 8]), 2 = Quarters([_; 4]).
StripesTag == 0
BarsTag == 1
QuartersTag == 2
StripesChannels == 4
BarsChannels == 8
QuartersChannels == 4

ChannelCount(tag) ==
    IF tag = BarsTag THEN BarsChannels
    ELSE IF tag = StripesTag THEN StripesChannels ELSE QuartersChannels

TakePattern(data, pos) ==
    Then(TakeVariant(data, pos, PatternCount), LAMBDA t :
    Then(TakeChannels(data, t.pos, ChannelCount(t.val), <<>>), LAMBDA cs :
    Good([tag |-> t.val, channels |-> cs.val], cs.pos)))

TakeAppConfig(data, pos) ==
    Then(TakeU32(data, pos), LAMBDA v :
    Then(TakeUsize(data, v.pos), LAMBDA sc :
    Then(TakeVariant(data, sc.pos, FFTSizeCount), LAMBDA fs :
    Then(TakeBool(data, fs.pos), LAMBDA hw :
    Then(TakePattern(data, hw.pos), LAMBDA pt :
    Good([config_version |-> v.val, sample_count |-> sc.val, fft_size |-> fs.val,
          use_hann_window |-> hw.val, pattern |-> pt.val], pt.pos))))))

\* AppConfig::from_bytes: postcard::from_bytes decodes one value from the
\* front of the slice and ignores whatever follows it.
from_bytes(data) ==
    LET r == TakeAppConfig(data, 1) IN IF r.ok THEN Some(r.val) ELSE None

RECURSIVE Flatten(_)
Flatten(ss) == IF ss = <<>> THEN <<>> ELSE Head(ss) \o Flatten(Tail(ss))

EncodeChannelConfig(c) ==
    EncodeVarint(c.start_index) \o EncodeVarint(c.end_index) \o c.premult \o
    c.noise_gate \o <<c.exponent>> \o c.color[1] \o c.color[2] \o c.color[3] \o
    EncodeVarint(ToLimbs(c.aggregate))

EncodeAppConfig(c) ==
    EncodeVarint(c.config_version) \o EncodeVarint(c.sample_count) \o
    EncodeVarint(ToLimbs(c.fft_size)) \o <<IF c.use_hann_window THEN 1 ELSE 0>> \o
    EncodeVarint(ToLimbs(c.pattern.tag)) \o
    Flatten([i \in 1..Len(c.pattern.channels) |-> EncodeChannelConfig(c.pattern.channels[i])])

\* AppConfig::to_bytes::<B>: postcard::to_vec into a heapless::Vec<u8, B>,
\* Err (None here) when the encoding is longer than B.
to_bytes(c, B) ==
    LET e == EncodeAppConfig(c) IN IF Len(e) <= B THEN Some(e) ELSE None

(***************************************************************************)
(* Presets (src/common/src/config_presets.rs).  f32 values by bit pattern. *)
(***************************************************************************)
F0 == <<0, 0, 0, 0>>            \* 0.0
F1 == <<0, 0, 128, 63>>         \* 1.0
F2 == <<0, 0, 0, 64>>           \* 2.0
F3 == <<0, 0, 64, 64>>          \* 3.0
F5 == <<0, 0, 160, 64>>         \* 5.0
F10 == <<0, 0, 32, 65>>         \* 10.0
F0_01 == <<10, 215, 35, 60>>    \* 0.01
F0_498 == <<219, 249, 254, 62>> \* 0.498

Channel(s, e, pm, ng, ex, col) ==
    [start_index |-> ToLimbs(s), end_index |-> ToLimbs(e), premult |-> pm,
     noise_gate |-> ng, exponent |-> ex, color |-> col, aggregate |-> 0]

Preset(tag, channels) ==
    [config_version |-> ToLimbs(1), sample_count |-> ToLimbs(256), fft_size |-> 2,
     use_hann_window |-> TRUE, pattern |-> [tag |-> tag, channels |-> channels]]

stripes ==
    Preset(StripesTag,
           << Channel(1, 1, F3, F0_01, 6, <<F1, F0, F0>>),
              Channel(2, 10, F3, F0_01, 6, <<F0, F1, F0>>),
              Channel(11, 15, F3, F0_01, 6, <<F0, F0, F1>>),
              Channel(16, 25, F3, F0_01, 6, <<F1, F1, F1>>) >>)

bars2 ==
    Preset(BarsTag,
           << Channel(1, 1, F2, F0, 1, <<F1, F0, F0>>),
              Channel(2, 3, F3, F0, 1, <<F1, F0_498, F0>>),
              Channel(4, 5, F3, F0, 1, <<F1, F1, F0>>),
              Channel(6, 10, F5, F0, 1, <<F0, F1, F0>>),
              Channel(11, 14, F10, F0, 1, <<F0, F1, F1>>),
              Channel(15, 18, F10, F0, 1, <<F0, F0, F1>>),
              Channel(19, 22, F10, F0, 1, <<F0_498, F0, F1>>),
              Channel(23, 100, F10, F0, 1, <<F1, F0, F1>>) >>)

\* impl Default for AppConfig
DefaultConfig == bars2

(***************************************************************************)
(* Payloads the central writes.                                            *)
(***************************************************************************)
ControlPayloads ==
    {<<>>} \cup {<<b>> : b \in 0..4} \cup {<<OTA_CMD_BEGIN, OTA_CMD_COMMIT>>}

HashPayloads ==
    {Sha256Finalize(m) : m \in Images}
        \cup {SubSeq(Sha256Finalize(<<>>), 1, HashLen - 1), Sha256Finalize(<<>>) \o <<0>>}

\* usize values as digit strings: 0, 1, 127, 128, 255, 256 and usize::MAX
\* of the 32-bit target.
IndexValues ==
    { <<>>, <<1>>, <<127>>, <<0, 1>>, <<127, 1>>, <<0, 2>>, <<127, 127, 127, 127, 15>> }

FNaN == <<0, 0, 192, 127>>      \* a quiet NaN
FNeg == <<0, 0, 128, 191>>      \* -1.0

\* The fields other than the indices and the pattern, in three settings.
FieldSets ==
    { [config_version |-> <<1>>, sample_count |-> <<0, 2>>, fft_size |-> 2,
       use_hann_window |-> TRUE, premult |-> F3, noise_gate |-> F0_01,
       exponent |-> 6, color |-> <<F1, F0, F0_498>>, aggregate |-> 0],
      [config_version |-> <<127, 127, 127, 127, 15>>, sample_count |-> <<>>,
       fft_size |-> 0, use_hann_window |-> FALSE, premult |-> FNaN,
       noise_gate |-> FNeg, exponent |-> 255, color |-> <<FNaN, FNeg, F10>>,
       aggregate |-> 2],
      [config_version |-> <<>>, sample_count |-> <<127, 127, 127, 127, 15>>,
       fft_size |-> 1, use_hann_window |-> TRUE, premult |-> F0, noise_gate |-> F0,
       exponent |-> 0, color |-> <<F0, F0, F0>>, aggregate |-> 1] }

\* An AppConfig of the given pattern variant: the first channel covers
\* s..e, the other channels the single bin s.
TestConfig(tag, s, e, f) ==
    [config_version |-> f.config_version, sample_count |-> f.sample_count,
     fft_size |-> f.fft_size, use_hann_window |-> f.use_hann_window,
     pattern |->
        [tag |-> tag,
         channels |->
            [i \in 1..ChannelCount(tag) |->
                [start_index |-> s, end_index |-> IF i = 1 THEN e ELSE s,
                 premult |-> f.premult, noise_gate |-> f.noise_gate,
                 exponent |-> f.exponent, color |-> f.color,
                 aggregate |-> f.aggregate]]]]

TestConfigs ==
    {stripes, bars2} \cup
    { TestConfig(tag, s, e, f) :
        tag \in {StripesTag, BarsTag, QuartersTag}, s \in IndexValues,
        e \in IndexValues, f \in FieldSets }

Encoded(c) == to_bytes(c, ConfigDataCapacity)[1]

\* Well-formed encodings, the same followed by surplus bytes (one of them
\* longer than the characteristic), a truncated one, one with a bad tag,
\* and the encoding of a config whose first channel has start_index 256
\* and end_index 1.
ConfigPayloads ==
    { Encoded(stripes),
      Encoded(bars2),
      Encoded(stripes) \o <<0>>,
      Encoded(bars2) \o <<0, 0, 0>>,
      SubSeq(Encoded(stripes), 1, 50),
      <<1, 128, 2, 3>> \o SubSeq(Encoded(stripes), 5, Len(Encoded(stripes))),
      Encoded(TestConfig(QuartersTag, <<0, 2>>, <<1>>, CHOOSE f \in FieldSets : f.fft_size = 2)) }

\* from_bytes on the payloads above, computed once.
DecodedPayloads == [data \in ConfigPayloads |-> from_bytes(data)]

\* AppConfig::from_bytes(byte_data) as the handler calls it.
from_bytes_of_payload(data) ==
    IF data \in ConfigPayloads THEN DecodedPayloads[data] ELSE from_bytes(data)

(***************************************************************************)
(* The write handlers of gatt_events_task, as functions of the state they  *)
(* read.  reply "NONE" means the handler did not get to send a response.   *)
(***************************************************************************)
\* Variant: an unknown command publishes ERROR, as the failing commands do.
HandleOtaControl_unknown_is_error(st, control, status, data, flash_ok) ==
    LET keep == [st |-> st, control |-> control, status |-> status,
                 reply |-> "NONE", fx |-> <<>>, reset |-> FALSE]
    IN
    IF Len(data) # 1 THEN
        [keep EXCEPT !.reply = "INVALID_ATTRIBUTE_VALUE_LENGTH"]
    ELSE IF data[1] = OTA_CMD_BEGIN THEN
        LET r == begin_ota(st, flash_ok) IN
        IF r.ok THEN
            [keep EXCEPT !.st = r.st, !.control = OTA_CMD_BEGIN,
                         !.status = OTA_STATUS_IN_PROGRESS, !.reply = "ACCEPT",
                         !.fx = r.fx]
        ELSE
            [keep EXCEPT !.st = r.st, !.status = OTA_STATUS_ERROR,
                         !.reply = "UNLIKELY_ERROR", !.fx = r.fx]
    ELSE IF data[1] = OTA_CMD_COMMIT THEN
        LET r == commit_ota(st, flash_ok) IN
        IF r.reset THEN
            \* software_reset() inside commit_ota(): the handler never resumes
            [keep EXCEPT !.st = r.st, !.fx = r.fx, !.reset = TRUE]
        ELSE IF r.ok THEN
            \* Ok arm: set control and status, wait 100 ms, reset, before the reply
            [keep EXCEPT !.st = r.st, !.control = OTA_CMD_COMMIT,
                         !.status = OTA_STATUS_SUCCESS,
                         !.fx = r.fx \o <<"reset">>, !.reset = TRUE]
        ELSE
            [keep EXCEPT !.st = r.st, !.status = OTA_STATUS_ERROR,
                         !.reply = "UNLIKELY_ERROR", !.fx = r.fx]
    ELSE IF data[1] = OTA_CMD_ABORT THEN
        LET r == abort_ota(st) IN
        [keep EXCEPT !.st = r.st, !.control = OTA_CMD_ABORT,
                     !.status = OTA_STATUS_IDLE, !.reply = "ACCEPT", !.fx = r.fx]
    ELSE
        [keep EXCEPT !.status = OTA_STATUS_ERROR, !.reply = "VALUE_NOT_ALLOWED"]

HandleOtaControl(st, control, status, data, flash_ok) ==
    LET keep == [st |-> st, control |-> control, status |-> status,
                 reply |-> "NONE", fx |-> <<>>, reset |-> FALSE]
    IN
    IF Len(data) # 1 THEN
        [keep EXCEPT !.reply = "INVALID_ATTRIBUTE_VALUE_LENGTH"]
    ELSE IF data[1] = OTA_CMD_BEGIN THEN
        LET r == begin_ota(st, flash_ok) IN
        IF r.ok THEN
            [keep EXCEPT !.st = r.st, !.control = OTA_CMD_BEGIN,
                         !.status = OTA_STATUS_IN_PROGRESS, !.reply = "ACCEPT",
                         !.fx = r.fx]
        ELSE
            [keep EXCEPT !.st = r.st, !.status = OTA_STATUS_ERROR,
                         !.reply = "UNLIKELY_ERROR", !.fx = r.fx]
    ELSE IF data[1] = OTA_CMD_COMMIT THEN
        LET r == commit_ota(st, flash_ok) IN
        IF r.reset THEN
            \* software_reset() inside commit_ota(): the handler never resumes
            [keep EXCEPT !.st = r.st, !.fx = r.fx, !.reset = TRUE]
        ELSE IF r.ok THEN
            \* Ok arm: set control and status, wait 100 ms, reset, before the reply
            [keep EXCEPT !.st = r.st, !.control = OTA_CMD_COMMIT,
                         !.status = OTA_STATUS_SUCCESS,
                         !.fx = r.fx \o <<"reset">>, !.reset = TRUE]
        ELSE
            [keep EXCEPT !.st = r.st, !.status = OTA_STATUS_ERROR,
                         !.reply = "UNLIKELY_ERROR", !.fx = r.fx]
    ELSE IF data[1] = OTA_CMD_ABORT THEN
        LET r == abort_ota(st) IN
        [keep EXCEPT !.st = r.st, !.control = OTA_CMD_ABORT,
                     !.status = OTA_STATUS_IDLE, !.reply = "ACCEPT", !.fx = r.fx]
    ELSE
        [keep EXCEPT !.reply = "VALUE_NOT_ALLOWED"]

\* Variant: during an update the expected hash is the one Begin was given.
HandleOtaHash_locked_by_begin(st, hash, data) ==
    IF Len(data) = HashLen THEN
        [st |-> IF IsSome(st.ota_updater) THEN st
                ELSE [st EXCEPT !.expected_hash = Some(data)],
         hash |-> data, reply |-> "ACCEPT"]
    ELSE
        [st |-> st, hash |-> hash, reply |-> "INVALID_ATTRIBUTE_VALUE_LENGTH"]

HandleOtaHash(st, hash, data) ==
    IF Len(data) = HashLen THEN
        [st |-> [st EXCEPT !.expected_hash = Some(data)], hash |-> data,
         reply |-> "ACCEPT"]
    ELSE
        [st |-> st, hash |-> hash, reply |-> "INVALID_ATTRIBUTE_VALUE_LENGTH"]

\* Variant: a failed write is reported but the update is not aborted.
HandleOtaData_no_abort(st, status, data, write_ok) ==
    LET r == write_ota_data(st, data, write_ok) IN
    IF r.ok THEN
        [st |-> r.st, status |-> status, reply |-> "ACCEPT", fx |-> r.fx]
    ELSE
        [st |-> r.st, status |-> OTA_STATUS_ERROR, reply |-> "UNLIKELY_ERROR",
         fx |-> r.fx]

HandleOtaData(st, status, data, write_ok) ==
    LET r == write_ota_data(st, data, write_ok) IN
    IF r.ok THEN
        [st |-> r.st, status |-> status, reply |-> "ACCEPT", fx |-> r.fx]
    ELSE
        LET a == abort_ota(r.st) IN
        [st |-> a.st, status |-> OTA_STATUS_ERROR, reply |-> "UNLIKELY_ERROR",
         fx |-> r.fx \o a.fx]

\* Variant: a payload that does not deserialize is rejected but still stored.
HandleConfigData_stores_rejected(signal, stored, data) ==
    LET c == from_bytes_of_payload(data) IN
    IF IsSome(c) THEN
        IF Len(data) <= ConfigDataCapacity THEN
            [signal |-> Some(c[1]), stored |-> data, reply |-> "ACCEPT", panic |-> FALSE]
        ELSE
            [signal |-> Some(c[1]), stored |-> stored, reply |-> "NONE", panic |-> TRUE]
    ELSE
        [signal |-> signal, stored |-> data, reply |-> "VALUE_NOT_ALLOWED",
         panic |-> FALSE]

\* config_data: the decoded config is signalled first; then the raw bytes go
\* into a heapless::Vec<u8, 200> with unwrap(), which panics when they do
\* not fit.
HandleConfigData(signal, stored, data) ==
    LET c == from_bytes_of_payload(data) IN
    IF IsSome(c) THEN
        IF Len(data) <= ConfigDataCapacity THEN
            [signal |-> Some(c[1]), stored |-> data, reply |-> "ACCEPT", panic |-> FALSE]
        ELSE
            [signal |-> Some(c[1]), stored |-> stored, reply |-> "NONE", panic |-> TRUE]
    ELSE
        [signal |-> signal, stored |-> stored, reply |-> "VALUE_NOT_ALLOWED",
         panic |-> FALSE]

(***************************************************************************)
(* Initial state: main() has signalled the default config, run() has built *)
(* the server and stored the encoded default config, and is advertising.   *)
(***************************************************************************)
InitBle ==
    /\ phase = "advertising"
    /\ link = "down"
    /\ pc = "next"
    /\ custom_pc = "rssi"
    /\ ota_state = [ota_updater |-> None, bytes_received |-> 0,
                    expected_hash |-> None, hasher |-> None]
    /\ ota_control = 0
    /\ ota_status = OTA_STATUS_IDLE
    /\ ota_hash = <<>>
    /\ config_data = Encoded(DefaultConfig)
    /\ config_signal = Some(DefaultConfig)
    /\ bootable = FALSE
    /\ last_event = "none"
    /\ last_data = <<>>
    /\ result = "NONE"
    /\ reply = "NONE"
    /\ fx = <<>>
    /\ hash_accepted = FALSE
    /\ begin_accepted = FALSE
    /\ cut_mid_update = FALSE
    /\ since_mismatch = "none"
    /\ unseen = 1

\* main() has created the two signals; the tasks have not run yet.
InitPipe ==
    /\ proc_pc = "wait_config"
    /\ current_config = None
    /\ neopixel_signal = None
    /\ led_pc = "demo"
    /\ published = <<>>
    /\ transmitted = <<>>

\* The pure functions are not being exercised.
InitPureOff ==
    /\ cfg = DefaultConfig
    /\ encoded = None
    /\ decoded = None
    /\ calc = [panic |-> FALSE, bins |-> <<>>]
    /\ pure_pc = "off"

MATRIX_WIDTH == 16
MATRIX_LENGTH == 256

\* let mut colors = [RGB8::new(0, 0, 0); MATRIX_LENGTH], entry i at position i + 1.
Black == <<0, 0, 0>>
BlackFrame == [i \in 1..MATRIX_LENGTH |-> Black]

\* No function has been applied on its own and nothing has been rendered.
InitFun ==
    /\ unit = [fn |-> "none", arg |-> <<>>, out |-> <<>>]
    /\ render_in = [tag |-> StripesTag, strengths |-> <<>>, colors |-> <<>>]
    /\ frame = BlackFrame
    /\ writes = [i \in 1..MATRIX_LENGTH |-> 0]

\* No audio stream is open, both sample blocks are free and no box is queued.
InitUsb ==
    /\ usb_link = "down"
    /\ stream_pc = "wait_connection"
    /\ in_hand = None
    /\ zc = <<>>
    /\ recv_pc = "receive"
    /\ audio_channel = <<>>
    /\ sessions = 0
    /\ arrived = <<>>
    /\ delivered = <<>>

Init == InitBle /\ InitPureOff /\ InitPipe /\ InitFun /\ InitUsb

\* run(): advertise() returns a connection; gatt_events_task and custom_task
\* are created, the former with a fresh OtaState.
Connect ==
    /\ phase = "advertising"
    /\ phase' = "connected"
    /\ link' = "up"
    /\ pc' = "next"
    /\ custom_pc' = "rssi"
    /\ ota_state' = NewOtaState
    /\ last_event' = "none"
    /\ last_data' = <<>>
    /\ result' = "NONE"
    /\ reply' = "NONE"
    /\ fx' = <<>>
    /\ hash_accepted' = FALSE
    /\ begin_accepted' = FALSE
    /\ UNCHANGED <<ota_control, ota_status, ota_hash, config_data, config_signal,
                   bootable, cut_mid_update>>
    /\ since_mismatch' = "none"
    /\ UNCHANGED unseen
    /\ UNCHANGED not_ble

\* The central disconnects or the link is lost.
LinkDown ==
    /\ phase = "connected"
    /\ link = "up"
    /\ link' = "down"
    /\ UNCHANGED <<phase, pc, custom_pc, ota_state, ota_control, ota_status, ota_hash,
                   config_data, config_signal, bootable, last_event, last_data, result,
                   reply,
                   fx, hash_accepted, begin_accepted, cut_mid_update,
                   since_mismatch>>
    /\ UNCHANGED unseen
    /\ UNCHANGED not_ble

AtNext == phase = "connected" /\ link = "up" /\ pc = "next"

\* After a handler: its effects are applied and the handler's result is
\* turned into a response with event.accept() or event.reject(code).  On Ok
\* the task is about to await reply.send(); on Err (decided by the BLE host
\* stack) it logs a warning, sends no response and is at yield_now().  A
\* handler that reset or panicked gets to neither.
Handled(kind, data, rep, calls, reset, panic) ==
    /\ last_event' = kind
    /\ last_data' = data
    /\ result' = rep
    /\ reply' = "NONE"
    /\ fx' = calls
    /\ phase' = IF reset THEN "reset" ELSE IF panic THEN "panicked" ELSE "connected"
    /\ \E reply_result \in {"Ok", "Err"} :
        pc' = IF reset \/ panic THEN pc
              ELSE IF reply_result = "Ok" THEN "reply" ELSE "yield"
    /\ since_mismatch' =
            IF /\ kind = "write_ota_control"
               /\ data = <<OTA_CMD_COMMIT>>
               /\ commit_ota(ota_state, TRUE).err = "Hash validation failed"
            THEN "rejected"
            ELSE IF /\ kind = "write_ota_control"
                    /\ data = <<OTA_CMD_BEGIN>>
                    /\ since_mismatch = "rejected"
            THEN "begun"
            ELSE "none"
    /\ UNCHANGED <<link, custom_pc, cut_mid_update>>

WriteOtaControl ==
    /\ AtNext
    /\ \E data \in ControlPayloads, flash_ok \in BOOLEAN :
        LET r == HandleOtaControl(ota_state, ota_control, ota_status, data, flash_ok) IN
        /\ ota_state' = r.st
        /\ ota_control' = r.control
        /\ ota_status' = r.status
        /\ bootable' = (bootable \/ (flash_ok /\ \E i \in 1..Len(r.fx) : r.fx[i] = "complete"))
        /\ begin_accepted' = (begin_accepted \/
                                (data = <<OTA_CMD_BEGIN>> /\ r.reply = "ACCEPT"))
        /\ Handled("write_ota_control", data, r.reply, r.fx, r.reset, FALSE)
    /\ UNCHANGED <<ota_hash, config_data, config_signal, hash_accepted>>
    /\ UNCHANGED unseen
    /\ UNCHANGED not_ble

WriteOtaHash ==
    /\ AtNext
    /\ \E data \in HashPayloads :
        LET r == HandleOtaHash(ota_state, ota_hash, data) IN
        /\ ota_state' = r.st
        /\ ota_hash' = r.hash
        /\ hash_accepted' = (hash_accepted \/ r.reply = "ACCEPT")
        /\ Handled("write_ota_hash", data, r.reply, <<>>, FALSE, FALSE)
    /\ UNCHANGED <<ota_control, ota_status, config_data, config_signal, bootable,
                   begin_accepted>>
    /\ UNCHANGED unseen
    /\ UNCHANGED not_ble

WriteOtaData ==
    /\ AtNext
    /\ \E data \in Chunks, write_ok \in BOOLEAN :
        /\ ota_state.bytes_received + Len(data) <= MaxImage
        /\ LET r == HandleOtaData(ota_state, ota_status, data, write_ok) IN
            /\ ota_state' = r.st
            /\ ota_status' = r.status
            /\ Handled("write_ota_data", data, r.reply, r.fx, FALSE, FALSE)
    /\ UNCHANGED <<ota_control, ota_hash, config_data, config_signal, bootable,
                   hash_accepted, begin_accepted>>
    /\ UNCHANGED unseen
    /\ UNCHANGED not_ble

WriteConfigData ==
    /\ AtNext
    /\ \E data \in ConfigPayloads :
        LET r == HandleConfigData(config_signal, config_data, data) IN
        /\ config_signal' = r.signal
        /\ config_data' = r.stored
        /\ unseen' = IF IsNone(from_bytes_of_payload(data)) THEN unseen
                      ELSE IF unseen = 0 THEN 1 ELSE 2
        /\ Handled("write_config_data", data, r.reply, <<>>, FALSE, r.panic)
    /\ UNCHANGED <<ota_state, ota_control, ota_status, ota_hash, bootable,
                   hash_accepted, begin_accepted>>
    /\ UNCHANGED not_ble

\* A read is logged by the handler and accepted; the server answers with the
\* stored value, kept here in last_data.
ReadValue(kind) ==
    IF kind = "read_config_data" THEN config_data
    ELSE IF kind = "read_ota_control" THEN <<ota_control>>
    ELSE IF kind = "read_ota_hash" THEN ota_hash
    ELSE <<ota_status>>

Read(kinds) ==
    /\ AtNext
    /\ \E kind \in kinds :
        Handled(kind, ReadValue(kind), "ACCEPT", <<>>, FALSE, FALSE)
    /\ UNCHANGED <<ota_state, ota_control, ota_status, ota_hash, config_data,
                   config_signal, bootable, hash_accepted, begin_accepted>>
    /\ UNCHANGED unseen
    /\ UNCHANGED not_ble

ReadOta == Read({"read_ota_control", "read_ota_hash", "read_ota_status"})

ReadConfig == Read({"read_config_data"})

\* reply.send().await returns: the response has gone to the stack and the
\* task is at yield_now().
ReplySent ==
    /\ phase = "connected"
    /\ pc = "reply"
    /\ reply' = result
    /\ pc' = "yield"
    /\ UNCHANGED <<phase, link, custom_pc, ota_state, ota_control, ota_status, ota_hash,
                   config_data, config_signal, bootable, last_event, last_data, result,
                   fx, hash_accepted, begin_accepted, cut_mid_update, since_mismatch>>
    /\ UNCHANGED unseen
    /\ UNCHANGED not_ble

\* yield_now() at the end of a loop iteration.
Yield ==
    /\ phase = "connected"
    /\ pc = "yield"
    /\ pc' = "next"
    /\ UNCHANGED <<phase, link, custom_pc, ota_state, ota_control, ota_status, ota_hash,
                   config_data, config_signal, bootable, last_event, last_data, result,
                   reply,
                   fx, hash_accepted, begin_accepted, cut_mid_update,
                   since_mismatch>>
    /\ UNCHANGED unseen
    /\ UNCHANGED not_ble

\* conn.next() yields Disconnected: the loop breaks, the cleanup runs, the
\* task returns, select() returns and run() advertises again.
Disconnected ==
    /\ phase = "connected"
    /\ link = "down"
    /\ pc = "next"
    /\ LET r == IF IsSome(ota_state.ota_updater) THEN abort_ota(ota_state)
                ELSE [st |-> ota_state, fx |-> <<>>] IN
        /\ ota_state' = r.st
        /\ fx' = r.fx
    /\ cut_mid_update' = (cut_mid_update \/ IsSome(ota_state.ota_updater))
    /\ UNCHANGED since_mismatch
    /\ phase' = "advertising"
    /\ UNCHANGED <<link, pc, custom_pc, ota_control, ota_status, ota_hash, config_data,
                   config_signal, bootable, last_event, last_data, result,
                   reply,
                   hash_accepted, begin_accepted>>
    /\ UNCHANGED unseen
    /\ UNCHANGED not_ble

\* custom_task: an RSSI read that succeeds, then the 2 s timer.
RssiOk ==
    /\ phase = "connected"
    /\ link = "up"
    /\ custom_pc = "rssi"
    /\ custom_pc' = "timer"
    /\ UNCHANGED <<phase, link, pc, ota_state, ota_control, ota_status, ota_hash,
                   config_data, config_signal, bootable, last_event, last_data, result,
                   reply,
                   fx, hash_accepted, begin_accepted, cut_mid_update,
                   since_mismatch>>
    /\ UNCHANGED unseen
    /\ UNCHANGED not_ble

TimerFired ==
    /\ phase = "connected"
    /\ custom_pc = "timer"
    /\ custom_pc' = "rssi"
    /\ UNCHANGED <<phase, link, pc, ota_state, ota_control, ota_status, ota_hash,
                   config_data, config_signal, bootable, last_event, last_data, result,
                   reply,
                   fx, hash_accepted, begin_accepted, cut_mid_update,
                   since_mismatch>>
    /\ UNCHANGED unseen
    /\ UNCHANGED not_ble

\* custom_task: the RSSI read fails and the task ends while gatt_events_task
\* is suspended in reply.send() or at yield_now(); select() returns and drops
\* gatt_events_task where it stands: a response not sent yet is never sent,
\* and the code after the loop does not run.
RssiFails ==
    /\ phase = "connected"
    /\ link = "down"
    /\ custom_pc = "rssi"
    /\ pc \in {"reply", "yield"}
    /\ phase' = "advertising"
    /\ fx' = <<>>
    /\ cut_mid_update' = (cut_mid_update \/ IsSome(ota_state.ota_updater))
    /\ UNCHANGED since_mismatch
    /\ UNCHANGED <<link, pc, custom_pc, ota_state, ota_control, ota_status, ota_hash,
                   config_data, config_signal, bootable, last_event, last_data, result,
                   reply,
                   hash_accepted, begin_accepted>>
    /\ UNCHANGED unseen
    /\ UNCHANGED not_ble

\* The connection life cycle and the two tasks' scheduling steps.
Lifecycle ==
    \/ Connect
    \/ LinkDown
    \/ ReplySent
    \/ Yield
    \/ Disconnected
    \/ RssiOk
    \/ TimerFired
    \/ RssiFails

\* The central drives the OTA service.
Next ==
    \/ Lifecycle
    \/ WriteOtaControl
    \/ WriteOtaHash
    \/ WriteOtaData
    \/ ReadOta

Spec == Init /\ [][Next]_vars

\* The central drives the Config service.
NextConfig ==
    \/ Lifecycle
    \/ WriteConfigData
    \/ ReadConfig

SpecConfig == Init /\ [][NextConfig]_vars

\* Variant: gatt_events_task goes on with its loop at a Disconnected event.
Disconnected_keeps_serving ==
    /\ phase = "connected"
    /\ link = "down"
    /\ pc = "next"
    /\ pc' = "yield"
    /\ UNCHANGED <<phase, link, custom_pc, ota_state, ota_control, ota_status, ota_hash,
                   config_data, config_signal, bootable, last_event, last_data, result,
                   reply,
                   fx, hash_accepted, begin_accepted, cut_mid_update,
                   since_mismatch>>
    /\ UNCHANGED unseen
    /\ UNCHANGED not_ble

\* conn.next() yields Disconnected: gatt_events_task ends and run() is back
\* in advertise().
GattTaskEnds == Disconnected

\* run(): advertise() returns Err and run() panics.
AdvertiseFails ==
    /\ phase = "advertising"
    /\ phase' = "panicked"
    /\ UNCHANGED <<link, pc, custom_pc, ota_state, ota_control, ota_status, ota_hash,
                   config_data, config_signal, bootable, last_event, last_data, result,
                   reply,
                   fx, hash_accepted, begin_accepted, cut_mid_update,
                   since_mismatch>>
    /\ UNCHANGED unseen
    /\ UNCHANGED not_ble

NextPeripheral ==
    \/ Connect
    \/ AdvertiseFails
    \/ LinkDown
    \/ ReplySent
    \/ Yield
    \/ GattTaskEnds
    \/ RssiOk
    \/ TimerFired
    \/ RssiFails
    \/ WriteConfigData
    \/ ReadConfig

\* The executor polls a task that is ready: gatt_events_task when
\* reply.send() has completed, after yield_now() and when conn.next() has
\* the Disconnected event.
SpecPeripheral ==
    /\ Init
    /\ [][NextPeripheral]_vars
    /\ WF_vars(ReplySent)
    /\ WF_vars(Yield)
    /\ WF_vars(GattTaskEnds)

(***************************************************************************)
(* The pure functions: AppConfig::to_bytes, AppConfig::from_bytes and      *)
(* calculate_channel, applied to configs drawn from a bounded set.         *)
(***************************************************************************)
\* The value of a usize digit string that has at most two digits.
IndexValue(l) ==
    IF l = <<>> THEN 0 ELSE IF Len(l) = 1 THEN l[1] ELSE l[1] + 128 * l[2]

\* let spectrum = rfft_512(..): 256 bins.
SpectrumLen == 256

\* usize::MAX of the 32-bit target, 2^32 - 1, as base-128 digits.
UsizeMax == <<127, 127, 127, 127, 15>>

\* calculate_channel: buckets = spectrum[start_index..=end_index + 1], each
\* mapped through norm_one_bucket and aggregated.  The result here is the
\* list of the bins the slice covers, or that taking the slice panics: the
\* range end is past the spectrum, or the range start is past the range
\* end plus one.  An index of three digits or more (16384 and up) is past
\* the spectrum whatever its value.
calculate_channel(channel_cfg, overflow_checks) ==
    IF channel_cfg.end_index = UsizeMax THEN
        \* end_index + 1 overflows: a panic in a build with overflow checks,
        \* else it wraps to 0 and the slice is spectrum[start_index..=0]
        IF overflow_checks THEN [panic |-> TRUE, bins |-> <<>>]
        ELSE IF channel_cfg.start_index = <<>> THEN [panic |-> FALSE, bins |-> <<0>>]
        ELSE IF channel_cfg.start_index = <<1>> THEN [panic |-> FALSE, bins |-> <<>>]
        ELSE [panic |-> TRUE, bins |-> <<>>]
    ELSE IF Len(channel_cfg.start_index) > 2 \/ Len(channel_cfg.end_index) > 2 THEN
        [panic |-> TRUE, bins |-> <<>>]
    ELSE
        LET start == IndexValue(channel_cfg.start_index)
            last  == IndexValue(channel_cfg.end_index) + 1
        IN  IF last >= SpectrumLen \/ start > last + 1 THEN
                [panic |-> TRUE, bins |-> <<>>]
            ELSE
                [panic |-> FALSE,
                 bins |-> [k \in 1..(last + 1 - start) |-> start + k - 1]]

InitPure ==
    /\ InitBle
    /\ InitPipe
    /\ InitFun
    /\ InitUsb
    /\ cfg \in TestConfigs
    /\ encoded = None
    /\ decoded = None
    /\ calc = [panic |-> FALSE, bins |-> <<>>]
    /\ pure_pc = "start"

\* AppConfig::to_bytes::<200>(), as run() calls it.
Serialize ==
    /\ pure_pc = "start"
    /\ encoded' = to_bytes(cfg, ConfigDataCapacity)
    /\ pure_pc' = "encoded"
    /\ UNCHANGED <<not_pure, cfg, decoded, calc>>

\* AppConfig::from_bytes on the bytes to_bytes returned.
Deserialize ==
    /\ pure_pc = "encoded"
    /\ IsSome(encoded)
    /\ decoded' = from_bytes(encoded[1])
    /\ pure_pc' = "decoded"
    /\ UNCHANGED <<not_pure, cfg, encoded, calc>>

\* process_fft calls calculate_channel on the first channel of the pattern.
\* Whether the build checks integer overflow is not fixed by the sources
\* (it is a setting of the cargo profile): either outcome may be observed.
CalculateChannel ==
    /\ pure_pc = "start"
    /\ \E overflow_checks \in BOOLEAN :
        calc' = calculate_channel(cfg.pattern.channels[1], overflow_checks)
    /\ pure_pc' = "calculated"
    /\ UNCHANGED <<not_pure, cfg, encoded, decoded>>

NextPure ==
    \/ Serialize
    \/ Deserialize
    \/ CalculateChannel

SpecPure == InitPure /\ [][NextPure]_vars

\* The data-model invariants of a channel and of a config:
\* start_index <= end_index < 256.
ValidChannel(c) ==
    /\ Len(c.start_index) <= 2
    /\ Len(c.end_index) <= 2
    /\ IndexValue(c.start_index) <= IndexValue(c.end_index)
    /\ IndexValue(c.end_index) < SpectrumLen

ValidConfig(c) ==
    \A i \in 1..Len(c.pattern.channels) : ValidChannel(c.pattern.channels[i])

(***************************************************************************)
(* The audio pipeline: usb_audio_processing_task renders a framebuffer per *)
(* audio block under its current config and publishes it in                *)
(* NEOPIXEL_SIGNAL; neopixel_task, on the other core, plays the startup    *)
(* demo and then hands each framebuffer it takes from the signal to the    *)
(* LED driver.  A Signal holds one value; signal() replaces it, wait() and *)
(* try_take() remove it.                                                   *)
(***************************************************************************)
MaxFrames == 3

\* The tasks of the first core run: the device has not reset and none of
\* them has panicked (the panic handler spins the core it is called on).
Running == phase \notin {"reset", "panicked"}

\* neopixel_task runs on the app core, under an executor of its own: a panic
\* on the first core does not stop it, a reset does.
LedsRunning == phase # "reset"

\* Variant: the check leaves the task's config as it is.
config_after_check_stale(current, signal) == current

\* if let Some(new_config) = config_signal.try_take() { current_config = new_config; }
config_after_check(current, signal) ==
    IF IsSome(signal) THEN signal ELSE current

\* Variant: wait() returns the value and leaves it in the signal.
after_wait_keeps(signal) == signal

\* The signal after wait() has returned its value.
after_wait(signal) == None

\* process_fft(&left_samples, &current_config): the framebuffer is known
\* by the block it was rendered from and the config it was rendered under;
\* it panics when calculate_channel does on one of the channels.
process_fft(block, config, overflow_checks) ==
    [panic |-> \E i \in 1..Len(config.pattern.channels) :
                    calculate_channel(config.pattern.channels[i], overflow_checks).panic,
     frame |-> [block |-> block, config |-> config]]

\* let mut current_config = config_signal.wait().await;
WaitConfig ==
    /\ Running
    /\ proc_pc = "wait_config"
    /\ IsSome(config_signal)
    /\ current_config' = config_signal
    /\ config_signal' = after_wait(config_signal)
    /\ unseen' = 0
    /\ proc_pc' = "check"
    /\ UNCHANGED <<phase, ble_rest, off_pipe, neopixel_signal, led_pc, published,
                   transmitted>>

\* The top of the loop: try_take() on the config signal, then the task
\* waits in audio_buffer_receiver.receive().
CheckConfig ==
    /\ Running
    /\ proc_pc = "check"
    /\ current_config' = config_after_check(current_config, config_signal)
    /\ config_signal' = None
    /\ unseen' = 0
    /\ proc_pc' = "receive"
    /\ UNCHANGED <<phase, ble_rest, off_pipe, neopixel_signal, led_pc, published,
                   transmitted>>

\* const SAMPLES_TO_TAKE: usize = 256; the slice handed to
\* process_audio_samples is SAMPLES_TO_TAKE * SAMPLE_SIZE = 2048 bytes.
SAMPLES_TO_TAKE == 256
SliceLen == SAMPLES_TO_TAKE * 8

\* Variant: the length of the buffer is not checked.
process_audio_samples_unchecked(len) ==
    [ok |-> TRUE, left |-> IF len \div 8 <= 512 THEN len \div 8 ELSE 512]

\* process_audio_samples on a buffer of len bytes: an Err unless len is a
\* multiple of 8, else one left sample per 8 bytes, pushed into a
\* heapless::Vec of capacity 512 whose push fails silently when full.
process_audio_samples(len) ==
    [ok |-> len % 8 = 0, left |-> IF len \div 8 <= 512 THEN len \div 8 ELSE 512]

\* Variant: the renderer does not replace a framebuffer the LED driver has
\* not taken yet.
MatchSlice_keeps_untaken(len) ==
    \E overflow_checks \in BOOLEAN :
    IF ~process_audio_samples(len).ok THEN
        /\ proc_pc' = "check"
        /\ UNCHANGED <<phase, neopixel_signal, published>>
    ELSE IF process_audio_samples(len).left # SAMPLES_TO_TAKE
            \/ process_fft(Len(published) + 1, current_config[1], overflow_checks).panic THEN
        /\ phase' = "panicked"
        /\ UNCHANGED <<proc_pc, neopixel_signal, published>>
    ELSE
        /\ neopixel_signal' =
                IF IsSome(neopixel_signal) THEN neopixel_signal
                ELSE Some(process_fft(Len(published) + 1, current_config[1], overflow_checks).frame)
        /\ published' = Append(published, process_fft(Len(published) + 1, current_config[1], overflow_checks).frame)
        /\ proc_pc' = "check"
        /\ UNCHANGED phase

\* match process_audio_samples(slice) { Ok(..) => .., Err(e) => .. } on a
\* slice of len bytes: the Err arm logs; the Ok arm asserts
\* left_samples.len() == SAMPLES_TO_TAKE, calls process_fft and signals
\* neopixel_signal, with no await in between.
MatchSlice(len) ==
    \E overflow_checks \in BOOLEAN :
    IF ~process_audio_samples(len).ok THEN
        /\ proc_pc' = "check"
        /\ UNCHANGED <<phase, neopixel_signal, published>>
    ELSE IF process_audio_samples(len).left # SAMPLES_TO_TAKE
            \/ process_fft(Len(published) + 1, current_config[1], overflow_checks).panic THEN
        /\ phase' = "panicked"
        /\ UNCHANGED <<proc_pc, neopixel_signal, published>>
    ELSE
        /\ neopixel_signal' = Some(process_fft(Len(published) + 1, current_config[1], overflow_checks).frame)
        /\ published' = Append(published, process_fft(Len(published) + 1, current_config[1], overflow_checks).frame)
        /\ proc_pc' = "check"
        /\ UNCHANGED phase

\* receive() returns a 2048-byte block and its first 2048 bytes are processed.
ProcessBlock ==
    /\ Running
    /\ proc_pc = "receive"
    /\ Len(published) < MaxFrames
    /\ MatchSlice(SliceLen)
    /\ UNCHANGED <<ble_rest, config_signal, unseen, off_pipe, current_config, led_pc,
                   transmitted>>

\* neopixel_demo: one frame of the animation goes to the driver.
DemoWrite ==
    /\ LedsRunning
    /\ led_pc = "demo"
    /\ led_pc' = "demo_write"
    /\ UNCHANGED <<ble_vars, off_pipe, proc_pc, current_config, neopixel_signal,
                   published, transmitted>>

\* The demo's write_async returns; the demo ends once 5 s have elapsed.
DemoWritten ==
    /\ LedsRunning
    /\ led_pc = "demo_write"
    /\ \E elapsed \in BOOLEAN : led_pc' = IF elapsed THEN "wait" ELSE "demo"
    /\ UNCHANGED <<ble_vars, off_pipe, proc_pc, current_config, neopixel_signal,
                   published, transmitted>>

\* pixel_signal.wait() returns a framebuffer and write_async starts.
TakeFrame ==
    /\ LedsRunning
    /\ led_pc = "wait"
    /\ IsSome(neopixel_signal)
    /\ transmitted' = Append(transmitted, neopixel_signal[1])
    /\ neopixel_signal' = after_wait(neopixel_signal)
    /\ led_pc' = "write"
    /\ UNCHANGED <<ble_vars, off_pipe, proc_pc, current_config, published>>

\* write_async returns, Ok or Err (an Err is logged), and the loop goes on.
WriteDone ==
    /\ LedsRunning
    /\ led_pc = "write"
    /\ led_pc' = "wait"
    /\ UNCHANGED <<ble_vars, off_pipe, proc_pc, current_config, neopixel_signal,
                   published, transmitted>>

\* A central connected once writes configs while the pipeline runs.
NextPipeline ==
    \/ Connect
    \/ ReplySent
    \/ Yield
    \/ WriteConfigData
    \/ WaitConfig
    \/ CheckConfig
    \/ ProcessBlock
    \/ DemoWrite
    \/ DemoWritten
    \/ TakeFrame
    \/ WriteDone

SpecPipeline == Init /\ [][NextPipeline]_vars

\* The renderer and the LED driver on a device whose config stays the one
\* main() signalled: a central connects and reads, but writes no config.
NextLeds ==
    \/ Connect
    \/ ReplySent
    \/ Yield
    \/ ReadConfig
    \/ WaitConfig
    \/ CheckConfig
    \/ ProcessBlock
    \/ DemoWrite
    \/ DemoWritten
    \/ TakeFrame
    \/ WriteDone

\* With the LED driver's progress: the executor polls neopixel_task once
\* pixel_signal has been signalled, and every SPI write of the main loop
\* completes.  The end of the startup demo is not assumed.
SpecLeds ==
    /\ Init
    /\ [][NextLeds]_vars
    /\ WF_vars(TakeFrame)
    /\ WF_vars(WriteDone)

(***************************************************************************)
(* Functions applied on their own: xy, encode_byte, and the pattern stage  *)
(* of process_fft on given channel strengths.                              *)
(***************************************************************************)
\* Variant: every column runs downwards.
xy_all_down(x, y) == (x * MATRIX_WIDTH) + y

\* xy: the index of (x, y) on the strip; even columns go down, odd ones up.
xy(x, y) ==
    IF x % 2 = 0 THEN (x * MATRIX_WIDTH) + y
    ELSE (x * MATRIX_WIDTH) + (MATRIX_WIDTH - 1 - y)

CallXY ==
    /\ unit.fn = "none"
    /\ render_in.strengths = <<>>
    /\ \E x \in 0..(MATRIX_WIDTH - 1), y \in 0..(MATRIX_WIDTH - 1) :
        unit' = [fn |-> "xy", arg |-> <<x, y>>, out |-> xy(x, y)]
    /\ UNCHANGED <<ble_vars, pure_vars, pipe_vars, usb_vars, render_in, frame, writes>>

\* let patterns = [0b1000_1000, 0b1000_1110, 0b11101000, 0b11101110];
patterns == <<136, 142, 232, 238>>

\* Variant: the bit pairs are emitted from the least significant one.
encode_byte_lsb_first(data) ==
    [index \in 1..4 |-> patterns[((data \div (4 ^ (index - 1))) % 4) + 1]]

\* encode_byte: four times, the pattern of the top two bits of data, then
\* data <<= 2 on a u8.
encode_byte(data) ==
    [index \in 1..4 |->
        LET shifted == (data * (4 ^ (index - 1))) % 256
            bits    == (shifted \div 64) % 4
        IN  patterns[bits + 1]]

CallEncodeByte ==
    /\ unit.fn = "none"
    /\ render_in.strengths = <<>>
    /\ \E data \in 0..255 :
        unit' = [fn |-> "encode_byte", arg |-> data, out |-> encode_byte(data)]
    /\ UNCHANGED <<ble_vars, pure_vars, pipe_vars, usb_vars, render_in, frame, writes>>

\* Channel strengths (the f32 calculate_channel returns) are multiples of
\* 1/32 and colour components multiples of 1/2, given by their numerators:
\* on these values the f32 products of process_fft are exact.
StrengthDen == 32
ColorDen == 2

Min(a, b) == IF a <= b THEN a ELSE b

\* (f.min(1.0) * channel.color[k] * 255.0) as u8
ScaleU8(strength, component) ==
    (Min(strength, StrengthDen) * component * 255) \div (StrengthDen * ColorDen)

ChannelColor(strength, color) ==
    <<ScaleU8(strength, color[1]), ScaleU8(strength, color[2]),
      ScaleU8(strength, color[3])>>

\* (channel_strengths[i] * 16.0) as usize
BarPixels(strength) == (Min(strength, StrengthDen) * 16) \div StrengthDen

\* Variant: the framebuffer of the previous call is reused.
new_colors_reused(previous) == previous

\* let mut colors = [RGB8::new(0, 0, 0); MATRIX_LENGTH];
new_colors(previous) == BlackFrame

\* Stripes: for i in 0..256, colors[i] is chosen by i / 16 and i % 16.
RenderStripes(channel_colors, colors) ==
    [frame |->
        [p \in 1..256 |->
            LET row == (p - 1) \div 16
                col == (p - 1) % 16
            IN  IF row < 8 /\ col < 8 THEN channel_colors[1]
                ELSE IF row < 8 /\ col >= 8 THEN channel_colors[2]
                ELSE IF row >= 8 /\ col < 8 THEN channel_colors[3]
                ELSE channel_colors[4]],
     writes |-> [p \in 1..256 |-> 1]]

\* *xy(&mut colors, x, y) = color for the loop position
\* cell = <<x, y, color, reached>>; writes counts the assignments to each
\* entry.
WritePixel(buffer, cell) ==
    IF ~cell[4] THEN buffer
    ELSE [frame |-> [buffer.frame EXCEPT ![xy(cell[1], cell[2]) + 1] = cell[3]],
          writes |-> [buffer.writes EXCEPT ![xy(cell[1], cell[2]) + 1] = @ + 1]]

\* The loop positions lo..hi of cells, in order.
RECURSIVE WritePixels(_, _, _, _)
WritePixels(buffer, cells, lo, hi) ==
    IF lo > hi THEN buffer
    ELSE IF lo = hi THEN
        CHOOSE out \in {WritePixel(b, c) : b \in {buffer}, c \in {cells[lo]}} : TRUE
    ELSE
        CHOOSE out \in
            { WritePixels(left, cells, ((lo + hi) \div 2) + 1, hi) :
                left \in {WritePixels(buffer, cells, lo, (lo + hi) \div 2)} } : TRUE

Unwritten(colors) == [frame |-> colors, writes |-> [p \in 1..256 |-> 0]]

\* Quarters: for i in 0..4 { for y in 0..8 { for x in 0..8 {
\*     *xy(&mut colors, offset_x + x, offset_y + y) = channel_colors[i] } } }
RenderQuarters(channel_colors, colors) ==
    LET cells ==
            [n \in 1..256 |->
                LET i == (n - 1) \div 64
                    y == ((n - 1) \div 8) % 8
                    x == (n - 1) % 8
                    offset_x == IF i \in {1, 3} THEN 8 ELSE 0
                    offset_y == IF i \in {2, 3} THEN 8 ELSE 0
                IN  <<offset_x + x, offset_y + y, channel_colors[i + 1], TRUE>>]
    IN  WritePixels(Unwritten(colors), cells, 1, 256)

\* Bars: for i in 0..8 { for y in 0..pixels { for x in 0..2 {
\*     *xy(&mut colors, i * 2 + x, 15 - y) = RGB8::new(..) } } }
RenderBars(strengths, channel_cfg_colors, colors) ==
    LET cells ==
            [n \in 1..256 |->
                LET i == (n - 1) \div 32
                    y == ((n - 1) \div 2) % 16
                    x == (n - 1) % 2
                IN  <<i * 2 + x, 15 - y,
                      ChannelColor(strengths[i + 1], channel_cfg_colors[i + 1]),
                      y < BarPixels(strengths[i + 1])>>]
    IN  WritePixels(Unwritten(colors), cells, 1, 256)

\* match &config.pattern { .. } of process_fft, on the channel strengths
\* calculate_channel returned and starting from the colors array.
RenderPattern(in, colors) ==
    IF in.tag = StripesTag THEN
        RenderStripes([i \in 1..4 |-> ChannelColor(in.strengths[i], in.colors[i])], colors)
    ELSE IF in.tag = BarsTag THEN
        RenderBars(in.strengths, in.colors, colors)
    ELSE
        RenderQuarters([i \in 1..4 |-> ChannelColor(in.strengths[i], in.colors[i])], colors)

\* Strengths 0, 1/32, 3/32, 1/2, 31/32, 1 and 1.5.
Levels == {0, 1, 3, 16, 31, 32, 48}

Ramp == <<3, 16, 31, 48, 1, 15, 32, 8>>

\* Stands for the ramp among the levels.
RampLevel == 0 - 1

Palette ==
    << <<2, 0, 0>>, <<0, 2, 0>>, <<0, 0, 2>>, <<2, 2, 2>>,
       <<2, 1, 0>>, <<0, 2, 2>>, <<1, 0, 2>>, <<2, 0, 2>> >>

\* Every pattern variant, with equal strengths on all channels or a ramp,
\* and with a colour per channel or white on all.
RenderInputs ==
    { [tag |-> tag,
       strengths |-> [i \in 1..ChannelCount(tag) |-> IF l = RampLevel THEN Ramp[i] ELSE l],
       colors |-> [i \in 1..ChannelCount(tag) |-> IF white THEN <<2, 2, 2>> ELSE Palette[i]]] :
        tag \in {StripesTag, BarsTag, QuartersTag}, l \in Levels \cup {RampLevel},
        white \in BOOLEAN }

\* process_fft from its pattern stage on: a fresh colors array, the
\* pattern, and the array returned.
Render ==
    /\ unit.fn = "none"
    /\ \E in \in RenderInputs :
        LET r == RenderPattern(in, new_colors(frame)) IN
        /\ render_in' = in
        /\ frame' = r.frame
        /\ writes' = r.writes
    /\ UNCHANGED <<ble_vars, pure_vars, pipe_vars, usb_vars, unit>>

\* Buffer lengths handed to process_audio_samples: not a multiple of 8,
\* a multiple of 4 only, 256 samples, 257 samples, 513 samples.
SliceLens == {7, 2044, 2048, 2056, 4104}

\* The body of the processing loop after receive(), on a slice of any of
\* the lengths.
ProcessSlice ==
    /\ Running
    /\ proc_pc = "receive"
    /\ Len(published) < MaxFrames
    /\ \E len \in SliceLens :
        /\ MatchSlice(len)
        /\ unit' = [fn |-> "process_audio_samples", arg |-> len,
                    out |-> process_audio_samples(len)]
    /\ UNCHANGED <<ble_rest, config_signal, unseen, pure_vars, usb_vars, render_in, frame, writes,
                   current_config, led_pc, transmitted>>

NextSlices ==
    \/ Connect
    \/ ReplySent
    \/ Yield
    \/ WriteConfigData
    \/ WaitConfig
    \/ CheckConfig
    \/ ProcessSlice

SpecSlices == Init /\ [][NextSlices]_vars

NextFunctions ==
    \/ CallXY
    \/ CallEncodeByte
    \/ Render

SpecFunctions == Init /\ [][NextFunctions]_vars

(***************************************************************************)
(* USB audio: usb_streaming_task reads packets into the two sample blocks  *)
(* of a zero-copy channel, usb_audio_receiver_task turns each block into a *)
(* 2048-byte box and queues it for the processing task.                    *)
(***************************************************************************)

\* Well-formed packets the model lets read_packet return.
MaxPackets == 5

\* static SAMPLE_BLOCKS: StaticCell<[SampleBlock; 2]>
SlotCount == 2

\* Channel<CriticalSectionRawMutex, Box<[u8; 2048]>, 4>
AudioChannelCapacity == 4

SAMPLE_SIZE == 4

\* Packet sizes in bytes: empty, not a whole number of samples, one USB
\* frame of audio.
PacketSizes == {0, 6, 384}

\* Variant: send() hands out a block although none is free.
send_ready_always(queue) == TRUE

\* zerocopy_channel::Sender::send() is ready when a block is free.
send_ready(queue) == Len(queue) < SlotCount

\* Variant: the blocks sent are dropped when the stream handler returns.
zc_after_disconnect_cleared(queue) == <<>>

\* stream_handler returns Err(Disconnected): usb_streaming_task keeps the
\* sender and the channel is not touched.
zc_after_disconnect(queue) == queue

\* The receiver's box for a block: the samples copied into a zeroed
\* [u8; 2048], buffer_pos bytes of it filled.
BoxOf(block) ==
    [id |-> block.id,
     buffer_pos |-> IF block.words * 4 <= 2048 THEN block.words * 4 ELSE 2048]

\* The host opens the audio stream.
UsbConnect ==
    /\ Running
    /\ usb_link = "down"
    /\ usb_link' = "up"
    /\ UNCHANGED <<ble_vars, pure_vars, pipe_vars, fun_vars, stream_pc, in_hand, zc,
                   recv_pc, audio_channel, sessions, arrived, delivered>>

\* The host closes the audio stream.
UsbDisconnect ==
    /\ Running
    /\ usb_link = "up"
    /\ usb_link' = "down"
    /\ UNCHANGED <<ble_vars, pure_vars, pipe_vars, fun_vars, stream_pc, in_hand, zc,
                   recv_pc, audio_channel, sessions, arrived, delivered>>

\* stream.wait_connection() returns and stream_handler starts.
StreamConnected ==
    /\ Running
    /\ stream_pc = "wait_connection"
    /\ usb_link = "up"
    /\ stream_pc' = "read"
    /\ sessions' = IF sessions < 2 THEN sessions + 1 ELSE 2
    /\ UNCHANGED <<ble_vars, pure_vars, pipe_vars, fun_vars, usb_link, in_hand, zc,
                   recv_pc, audio_channel, arrived, delivered>>

\* read_packet returns data_size bytes.  A packet that is not a whole number
\* of samples is skipped; otherwise send() is awaited, and when a block is
\* free the samples are copied into it and send_done() publishes it, all
\* without another await.
ReadPacket ==
    /\ Running
    /\ stream_pc = "read"
    /\ usb_link = "up"
    /\ Len(arrived) < MaxPackets
    /\ \E data_size \in PacketSizes :
        LET word_count == data_size \div SAMPLE_SIZE
            packet == [id |-> Len(arrived) + 1, session |-> sessions, words |-> word_count]
        IN  IF word_count * SAMPLE_SIZE = data_size THEN
                /\ arrived' = Append(arrived, packet)
                /\ IF send_ready(zc) THEN
                        /\ zc' = Append(zc, packet)
                        /\ UNCHANGED <<stream_pc, in_hand>>
                   ELSE
                        /\ in_hand' = Some(packet)
                        /\ stream_pc' = "send"
                        /\ UNCHANGED zc
            ELSE UNCHANGED <<arrived, zc, stream_pc, in_hand>>
    /\ UNCHANGED <<ble_vars, pure_vars, pipe_vars, fun_vars, usb_link, recv_pc,
                   audio_channel, sessions, delivered>>

\* send() returns once a block is free: the packet held is copied into it
\* and published.
SendDone ==
    /\ Running
    /\ stream_pc = "send"
    /\ send_ready(zc)
    /\ zc' = Append(zc, in_hand[1])
    /\ in_hand' = None
    /\ stream_pc' = "read"
    /\ UNCHANGED <<ble_vars, pure_vars, pipe_vars, fun_vars, usb_link, recv_pc,
                   audio_channel, sessions, arrived, delivered>>

\* read_packet returns Err(Disabled) on a closed stream: stream_handler
\* returns and usb_streaming_task waits for the next connection.
ReadDisconnected ==
    /\ Running
    /\ stream_pc = "read"
    /\ usb_link = "down"
    /\ stream_pc' = "wait_connection"
    /\ zc' = zc_after_disconnect(zc)
    /\ UNCHANGED <<ble_vars, pure_vars, pipe_vars, fun_vars, usb_link, in_hand, recv_pc,
                   audio_channel, sessions, arrived, delivered>>

\* receive() returns the oldest block.  A block with samples becomes a box
\* and audio_buffer_sender.send(buffer) is awaited; an empty block is not
\* sent on.  receive_done() then releases the block.
ReceiveSamples ==
    /\ Running
    /\ recv_pc = "receive"
    /\ zc # <<>>
    /\ IF BoxOf(Head(zc)).buffer_pos > 0 THEN
            IF Len(audio_channel) < AudioChannelCapacity THEN
                /\ audio_channel' = Append(audio_channel, BoxOf(Head(zc)))
                /\ zc' = Tail(zc)
                /\ UNCHANGED recv_pc
            ELSE
                /\ recv_pc' = "send"
                /\ UNCHANGED <<audio_channel, zc>>
       ELSE
            /\ zc' = Tail(zc)
            /\ UNCHANGED <<audio_channel, recv_pc>>
    /\ UNCHANGED <<ble_vars, pure_vars, pipe_vars, fun_vars, usb_link, stream_pc, in_hand,
                   sessions, arrived, delivered>>

\* audio_buffer_sender.send(buffer) returns once the channel has room, and
\* receive_done() releases the block.
BufferSent ==
    /\ Running
    /\ recv_pc = "send"
    /\ Len(audio_channel) < AudioChannelCapacity
    /\ audio_channel' = Append(audio_channel, BoxOf(Head(zc)))
    /\ zc' = Tail(zc)
    /\ recv_pc' = "receive"
    /\ UNCHANGED <<ble_vars, pure_vars, pipe_vars, fun_vars, usb_link, stream_pc, in_hand,
                   sessions, arrived, delivered>>

\* audio_buffer_receiver.receive() returns the oldest box and the
\* processing task processes its 2048 bytes.
ReceiveBlock ==
    /\ Running
    /\ proc_pc = "receive"
    /\ audio_channel # <<>>
    /\ delivered' = Append(delivered, Head(audio_channel))
    /\ audio_channel' = Tail(audio_channel)
    /\ MatchSlice(SliceLen)
    /\ UNCHANGED <<ble_rest, config_signal, unseen, pure_vars, fun_vars, current_config,
                   led_pc, transmitted, usb_link, stream_pc, in_hand, zc, recv_pc,
                   sessions, arrived>>

NextUsb ==
    \/ UsbConnect
    \/ UsbDisconnect
    \/ StreamConnected
    \/ ReadPacket
    \/ SendDone
    \/ ReadDisconnected
    \/ ReceiveSamples
    \/ BufferSent
    \/ WaitConfig
    \/ CheckConfig
    \/ ReceiveBlock

SpecUsb == Init /\ [][NextUsb]_vars

(***************************************************************************)
(* Properties.                                                             *)
(***************************************************************************)
Called(calls, name) == \E i \in 1..Len(calls) : calls[i] = name

\* This step is gatt_events_task handling one GATT event of the given kind.
HandlerStep(kind) ==
    /\ AtNext
    /\ pc' \in {"reply", "yield"} \/ phase' # "connected"
    /\ last_event' = kind

ControlStep(cmd) == HandlerStep("write_ota_control") /\ last_data' = <<cmd>>

JustHandled(kind) == phase = "connected" /\ pc = "yield" /\ last_event = kind

\* C1: on a connection where no 32-byte ota_hash write has been accepted, a
\* Begin is rejected, creates no updater and leaves ota_status at IDLE.
C1_BeginWithoutHashStaysIdle ==
    [][(ControlStep(OTA_CMD_BEGIN) /\ ~hash_accepted)
        => /\ result' \notin {"ACCEPT", "NONE"}
           /\ IsNone(ota_state'.ota_updater)
           /\ ~Called(fx', "new")
           /\ (ota_status = OTA_STATUS_IDLE => ota_status' = OTA_STATUS_IDLE)]_vars

\* C2: a Commit on an update whose digest differs from the expected hash is
\* rejected, sets ota_status to ERROR, does not call complete() (the
\* partition is not marked bootable) and does not reset.
C2_MismatchCommitRejected ==
    [][(/\ ControlStep(OTA_CMD_COMMIT)
        /\ IsSome(ota_state.ota_updater)
        /\ IsSome(ota_state.hasher)
        /\ Some(Sha256Finalize(ota_state.hasher[1])) # ota_state.expected_hash)
        => /\ result' = "UNLIKELY_ERROR"
           /\ ota_status' = OTA_STATUS_ERROR
           /\ ~Called(fx', "complete")
           /\ ~Called(fx', "reset")
           /\ bootable' = bootable
           /\ phase' = "connected"]_vars

C2_Witness ==
    /\ JustHandled("write_ota_control")
    /\ last_data = <<OTA_CMD_COMMIT>>
    /\ begin_accepted
    /\ ota_state.bytes_received > 0
    /\ IsSome(ota_state.expected_hash)
    /\ IsNone(ota_state.ota_updater)
    /\ IsNone(ota_state.hasher)
    /\ reply = "UNLIKELY_ERROR"
    /\ ota_status = OTA_STATUS_ERROR
    /\ fx = <<>>
    /\ ~bootable

\* C3 as stated: the reset of a fault-free update is invoked only after
\* SUCCESS has been published on ota_status.
C3_ResetOnlyAfterSuccess ==
    phase = "reset" => ota_status = OTA_STATUS_SUCCESS

\* C4 as stated: on a successful Commit the accept response to the Commit
\* write has been sent when the reset is invoked.
C4_CommitAcknowledgedBeforeReset ==
    phase = "reset"
        => /\ last_event = "write_ota_control"
           /\ last_data = <<OTA_CMD_COMMIT>>
           /\ reply = "ACCEPT"

\* C5 as stated: every change of ota_status comes with a notification of
\* the new value.
C5_StatusChangeNotified ==
    [][ota_status' # ota_status => Called(fx', "notify")]_vars

\* C6 as stated: whenever a connection ends while an updater exists, the
\* updater's abort() is invoked before the device advertises again.
C6_AbortBeforeAdvertising ==
    [][(phase = "connected" /\ phase' = "advertising" /\ IsSome(ota_state.ota_updater))
        => Called(fx', "abort")]_vars

\* C7: once a connection has ended during an update, a Commit on a later
\* connection on which no Begin has been accepted is rejected: no
\* complete(), no reset.
C7_NoCommitWithoutFreshBegin ==
    [][(ControlStep(OTA_CMD_COMMIT) /\ cut_mid_update /\ ~begin_accepted)
        => /\ result' = "UNLIKELY_ERROR"
           /\ fx' = <<>>
           /\ bootable' = bootable
           /\ phase' = "connected"]_vars

C7_Witness ==
    /\ JustHandled("write_ota_control")
    /\ last_data = <<OTA_CMD_COMMIT>>
    /\ cut_mid_update
    /\ ~begin_accepted
    /\ hash_accepted
    /\ reply = "UNLIKELY_ERROR"

\* C8: right after an Abort command, whatever the state it arrived in, the
\* command has been accepted, the updater, the hasher and the expected hash
\* are none, bytes_received is 0 and ota_status is IDLE.
C8_AbortClearsEverything ==
    (JustHandled("write_ota_control") /\ last_data = <<OTA_CMD_ABORT>>)
        => /\ result = "ACCEPT"
           /\ IsNone(ota_state.ota_updater)
           /\ IsNone(ota_state.hasher)
           /\ IsNone(ota_state.expected_hash)
           /\ ota_state.bytes_received = 0
           /\ ota_status = OTA_STATUS_IDLE

C8_Witness ==
    /\ JustHandled("write_ota_control")
    /\ last_data = <<OTA_CMD_ABORT>>
    /\ fx = <<"abort">>
    /\ hash_accepted
    /\ reply = "ACCEPT"
    /\ ota_status = OTA_STATUS_IDLE

\* C9 as stated: the end of a connection while an updater exists leaves
\* ota_status at IDLE, as an Abort command does, so that the next central
\* reads IDLE.
C9_DisconnectPublishesIdle ==
    [][(phase = "connected" /\ phase' = "advertising" /\ IsSome(ota_state.ota_updater))
        => ota_status' = OTA_STATUS_IDLE]_vars

\* C10 as stated: a config_data write of a byte string that deserializes
\* to an AppConfig is accepted, the decoded config is in the config signal,
\* and config_data then holds (and a read returns) exactly the bytes written.
C10_ValidConfigStored ==
    [][(HandlerStep("write_config_data") /\ IsSome(from_bytes(last_data')))
        => /\ result' = "ACCEPT"
           /\ config_signal' = from_bytes(last_data')
           /\ config_data' = last_data'
           /\ phase' = "connected"]_vars

\* C11: a config_data write whose payload does not deserialize to an
\* AppConfig is rejected with VALUE_NOT_ALLOWED, and the content of the
\* config signal and the stored config_data value are unchanged.
C11_InvalidConfigRejected ==
    [][(HandlerStep("write_config_data") /\ IsNone(from_bytes(last_data')))
        => /\ result' = "VALUE_NOT_ALLOWED"
           /\ config_signal' = config_signal
           /\ config_data' = config_data
           /\ phase' = "connected"]_vars

\* An undecodable payload has been rejected after a valid one had replaced
\* the default config.
C11_Witness ==
    /\ JustHandled("write_config_data")
    /\ IsNone(from_bytes(last_data))
    /\ last_data # <<>>
    /\ reply = "VALUE_NOT_ALLOWED"
    /\ config_data = Encoded(stripes)
    /\ config_signal = Some(stripes)

\* The OtaState and the two OTA attributes are what they were before the step.
OtaUntouched ==
    /\ ota_state' = ota_state
    /\ ota_control' = ota_control
    /\ ota_status' = ota_status
    /\ fx' = <<>>

\* C12: an ota_control write whose length is not 1 is rejected with
\* INVALID_ATTRIBUTE_VALUE_LENGTH, a 1-byte write of a value other than
\* 0x01, 0x02, 0x03 is rejected with VALUE_NOT_ALLOWED, and in both cases
\* the OtaState, ota_control and ota_status are unchanged.
C12_BadControlWriteRejected ==
    [][HandlerStep("write_ota_control")
        => /\ Len(last_data') # 1
                => result' = "INVALID_ATTRIBUTE_VALUE_LENGTH" /\ OtaUntouched
           /\ (/\ Len(last_data') = 1
               /\ last_data'[1] \notin {OTA_CMD_BEGIN, OTA_CMD_COMMIT, OTA_CMD_ABORT})
                => result' = "VALUE_NOT_ALLOWED" /\ OtaUntouched]_vars

\* An unknown command has been rejected in the middle of an update.
C12_Witness ==
    /\ JustHandled("write_ota_control")
    /\ last_data = <<4>>
    /\ reply = "VALUE_NOT_ALLOWED"
    /\ IsSome(ota_state.ota_updater)
    /\ ota_state.bytes_received > 0
    /\ ota_control = OTA_CMD_BEGIN
    /\ ota_status = OTA_STATUS_IN_PROGRESS

\* C13: while an update is in progress the hasher has been fed exactly the
\* bytes the flash updater has accepted, in arrival order, and
\* bytes_received is their number; an ota_data write that is not accepted
\* adds nothing to the hasher and nothing to bytes_received.
C13_HashedEqualsWritten ==
    /\ [](IsSome(ota_state.ota_updater)
            => /\ IsSome(ota_state.hasher)
               /\ ota_state.hasher[1] = Sha256Update(Sha256New, ota_state.ota_updater[1])
               /\ ota_state.bytes_received = Len(ota_state.ota_updater[1]))
    /\ [][(HandlerStep("write_ota_data") /\ IsSome(ota_state.ota_updater))
            => \/ /\ result' = "ACCEPT"
                  /\ ota_state'.ota_updater = Some(ota_state.ota_updater[1] \o last_data')
               \/ /\ result' # "ACCEPT"
                  /\ ota_state'.bytes_received <= ota_state.bytes_received
                  /\ IsSome(ota_state'.hasher) => ota_state'.hasher = ota_state.hasher]_vars

\* Two chunks have been written, in this order, and hashed.
C13_Witness ==
    /\ JustHandled("write_ota_data")
    /\ reply = "ACCEPT"
    /\ last_data = <<100>>
    /\ ota_state.ota_updater = Some(<<99, 100>>)
    /\ ota_state.hasher = Some(Sha256Update(Sha256Update(Sha256New, <<99>>), <<100>>))
    /\ ota_state.bytes_received = 2

\* C14: an ota_data write during an update whose flash write fails is
\* rejected with UNLIKELY_ERROR, sets ota_status to ERROR and aborts the
\* updater, which leaves no updater; without an updater a Commit is
\* rejected with no complete() and no reset; and only an accepted Begin
\* creates an updater.
C14_FailedWriteEndsUpdate ==
    [][/\ (/\ HandlerStep("write_ota_data")
            /\ IsSome(ota_state.ota_updater)
            /\ Called(fx', "write")
            /\ ota_state'.ota_updater # Some(ota_state.ota_updater[1] \o last_data'))
            => /\ result' = "UNLIKELY_ERROR"
               /\ ota_status' = OTA_STATUS_ERROR
               /\ Called(fx', "abort")
               /\ IsNone(ota_state'.ota_updater)
       /\ (ControlStep(OTA_CMD_COMMIT) /\ IsNone(ota_state.ota_updater))
            => /\ result' = "UNLIKELY_ERROR"
               /\ ~Called(fx', "complete")
               /\ ~Called(fx', "reset")
               /\ bootable' = bootable
               /\ phase' = "connected"
       /\ (IsNone(ota_state.ota_updater) /\ IsSome(ota_state'.ota_updater))
            => ControlStep(OTA_CMD_BEGIN) /\ result' = "ACCEPT"]_vars

\* A chunk of an accepted update has failed to reach the flash.
C14_Witness ==
    /\ JustHandled("write_ota_data")
    /\ last_data # <<>>
    /\ fx = <<"write", "abort">>
    /\ reply = "UNLIKELY_ERROR"
    /\ ota_status = OTA_STATUS_ERROR
    /\ IsNone(ota_state.ota_updater)
    /\ begin_accepted

\* C15 as stated: every AppConfig that satisfies the data-model invariants
\* serializes to at most 200 bytes: to_bytes::<200> returns Ok.
C15_ValidConfigFits ==
    (pure_pc = "encoded" /\ ValidConfig(cfg)) => IsSome(encoded)

\* C16: for every AppConfig whose serialization fits in 200 bytes,
\* from_bytes of the serialization succeeds and yields a config equal to
\* the original in every field.
C16_RoundTrip ==
    (pure_pc = "decoded" /\ IsSome(encoded)) => decoded = Some(cfg)

\* A Bars config whose first channel ends at bin 255, 199 bytes long, has
\* made the round trip.
C16_Witness ==
    /\ pure_pc = "decoded"
    /\ decoded = Some(cfg)
    /\ cfg.pattern.tag = BarsTag
    /\ cfg.pattern.channels[1].start_index = <<127>>
    /\ cfg.pattern.channels[1].end_index = <<127, 1>>
    /\ cfg.sample_count = <<0, 2>>
    /\ Len(encoded[1]) = 199

\* C17 as stated: every AppConfig that the config_data handler accepts and
\* signals to the pipeline satisfies start_index <= end_index < 256 for
\* every channel.
C17_SignalledConfigValid ==
    [][(HandlerStep("write_config_data") /\ config_signal' # config_signal)
        => ValidConfig(config_signal'[1])]_vars

\* C18 as stated: for every channel with start_index <= end_index < 256,
\* calculate_channel aggregates exactly the bins start_index..=end_index and
\* never indexes the 256-bin spectrum out of range.
C18_ExactBinsInRange ==
    (pure_pc = "calculated" /\ ValidChannel(cfg.pattern.channels[1]))
        => LET start == IndexValue(cfg.pattern.channels[1].start_index)
               end   == IndexValue(cfg.pattern.channels[1].end_index)
           IN  /\ ~calc.panic
               /\ calc.bins = [k \in 1..(end + 1 - start) |-> start + k - 1]

\* This step is the processing task's config check at the top of its loop.
CheckStep == proc_pc = "check" /\ proc_pc' = "receive"

\* C19: each framebuffer is rendered under the task's current config, which
\* rendering does not change; the current config changes only at the
\* initial wait or at the check at the top of the loop, to the value then in
\* the config signal; the check empties the signal, and when one or more
\* configs were signalled since the previous check the task adopts the one
\* in the signal, which is the one signalled last.
C19_ConfigAdoptedAtLoopStart ==
    [][/\ published' # published
            => /\ proc_pc = "receive"
               /\ published' = Append(published, published'[Len(published')])
               /\ published'[Len(published')].config = current_config[1]
               /\ current_config' = current_config
       /\ current_config' # current_config
            => /\ proc_pc \in {"wait_config", "check"}
               /\ proc_pc' # proc_pc
               /\ IsSome(config_signal)
               /\ current_config' = config_signal
       /\ CheckStep
            => /\ config_signal' = None
               /\ unseen >= 1 => current_config' = config_signal
               /\ unseen = 0 => current_config' = current_config
       /\ (HandlerStep("write_config_data") /\ pc' \in {"reply", "yield"} /\ result' = "ACCEPT")
            => config_signal' = from_bytes_of_payload(last_data')]_vars

\* Two framebuffers were rendered, the first under the default config and
\* the second under a config adopted at the check in between, and a third
\* config, signalled since, waits in the signal.
C19_Witness ==
    /\ proc_pc = "check"
    /\ Len(published) = 2
    /\ published[1].config = DefaultConfig
    /\ published[2].config = stripes
    /\ current_config = Some(stripes)
    /\ config_signal = Some(DefaultConfig)
    /\ unseen = 2

\* C20: the framebuffers handed to the LED driver are, in order, some of
\* the published ones, each at most once (their block numbers increase and
\* each equals the published framebuffer of that block); and the
\* framebuffer taken for a transmission is the newest one published, so of
\* those published during the previous transmission only the newest is
\* transmitted.
C20_TransmittedSubsequence ==
    /\ [](\A i \in 1..Len(transmitted) :
            /\ transmitted[i].block \in 1..Len(published)
            /\ transmitted[i] = published[transmitted[i].block]
            /\ i > 1 => transmitted[i - 1].block < transmitted[i].block)
    /\ [][transmitted' # transmitted
            => /\ led_pc = "wait"
               /\ published # <<>>
               /\ transmitted' = Append(transmitted, published[Len(published)])]_vars

\* The second of three framebuffers was published while the first was
\* being transmitted and was replaced by the third before the driver came
\* back.
C20_Witness ==
    /\ Len(published) = 3
    /\ transmitted = <<published[1], published[3]>>
    /\ led_pc = "write"
    /\ neopixel_signal = None

\* C21: xy maps the pairs (x, y), x and y in 0..15, one-to-one onto the
\* indices 0..255, giving 16 x + y for even x and 16 x + (15 - y) for odd x.
C21_SerpentineBijection ==
    unit.fn = "xy"
        => /\ unit.out = IF unit.arg[1] % 2 = 0
                          THEN 16 * unit.arg[1] + unit.arg[2]
                          ELSE 16 * unit.arg[1] + (15 - unit.arg[2])
           /\ unit.out \in 0..255
           /\ \A x \in 0..15, y \in 0..15 : xy(x, y) = unit.out => <<x, y>> = unit.arg
           /\ \A i \in 0..255 : \E x \in 0..15, y \in 0..15 : xy(x, y) = i

\* The top of the second column is the last index of that column.
C21_Witness ==
    /\ unit.fn = "xy"
    /\ unit.arg = <<1, 0>>
    /\ unit.out = 31

\* The bit pair an SPI byte stands for: the inverse of the pattern table.
DecodePair(spi) ==
    IF spi = 136 THEN 0 ELSE IF spi = 142 THEN 1 ELSE IF spi = 232 THEN 2 ELSE 3

\* C26: for every byte b, encode_byte emits four SPI bytes out of 0x88,
\* 0x8E, 0xE8, 0xEE, standing for the bit pairs 00, 01, 10, 11 of b from
\* the most significant pair to the least; decoding them gives b back.
C26_EncodeByteRoundTrip ==
    unit.fn = "encode_byte"
        => /\ Len(unit.out) = 4
           /\ \A i \in 1..4 : unit.out[i] \in {136, 142, 232, 238}
           /\ \A i \in 1..4 :
                DecodePair(unit.out[i]) = (unit.arg \div (4 ^ (4 - i))) % 4
           /\ unit.arg = 64 * DecodePair(unit.out[1]) + 16 * DecodePair(unit.out[2])
                          + 4 * DecodePair(unit.out[3]) + DecodePair(unit.out[4])

\* 0x1B has the four bit pairs 00, 01, 10, 11.
C26_Witness ==
    /\ unit.fn = "encode_byte"
    /\ unit.arg = 27
    /\ unit.out = <<136, 142, 232, 238>>


\* A pattern has been rendered into frame from the input render_in.
Rendered == render_in.strengths # <<>>

\* The channel whose quadrant holds the logical position (x, y).
Quadrant(x, y) ==
    IF x < 8 /\ y < 8 THEN 1
    ELSE IF x >= 8 /\ y < 8 THEN 2
    ELSE IF x < 8 /\ y >= 8 THEN 3
    ELSE 4

\* C22: for the Stripes pattern, the LED at the serpentine index of every
\* logical position (x, y) carries the colour of the channel of its quadrant:
\* channel 0 top-left, 1 top-right, 2 bottom-left, 3 bottom-right.
C22_StripesQuadrants ==
    (Rendered /\ render_in.tag = StripesTag) =>
        \A x \in 0..15, y \in 0..15 :
            frame[xy(x, y) + 1] =
                ChannelColor(render_in.strengths[Quadrant(x, y)],
                             render_in.colors[Quadrant(x, y)])

\* C23: for the same four channel colours, the Quarters pattern and the
\* Stripes pattern produce identical 256-entry framebuffers.
C23_QuartersEqualsStripes ==
    (Rendered /\ render_in.tag = QuartersTag) =>
        frame = RenderPattern([render_in EXCEPT !.tag = StripesTag], BlackFrame).frame

\* round(16 * s) for the clamped strength s, halves rounded away from zero.
RoundedPixels(strength) == (Min(strength, StrengthDen) * 16 * 2 + StrengthDen) \div (2 * StrengthDen)

\* C24: for the Bars pattern, exactly the round(16 * s) bottom-most rows of
\* columns 2i and 2i+1 carry the colour of channel i, and every other pixel of
\* those two columns is black.
C24_BarsRoundedHeight ==
    (Rendered /\ render_in.tag = BarsTag) =>
        \A i \in 0..7, x \in 0..1, y \in 0..15 :
            frame[xy(i * 2 + x, y) + 1] =
                IF y >= 16 - RoundedPixels(render_in.strengths[i + 1])
                THEN ChannelColor(render_in.strengths[i + 1], render_in.colors[i + 1])
                ELSE Black

\* C25 as stated: for every pattern variant, process_fft writes each of the
\* 256 framebuffer entries exactly once.
C25_EveryEntryWrittenOnce ==
    Rendered => \A p \in 1..256 : writes[p] = 1

\* C25: Stripes and Quarters write each of the 256 entries exactly once; Bars
\* writes exactly the floor(16 * s) bottom-most entries of each bar's two
\* columns, once each; an entry the pattern does not write holds the black of
\* the array created in this call, never a value of a previous frame.
C25_FreshFrame ==
    Rendered =>
        /\ render_in.tag \in {StripesTag, QuartersTag} => \A p \in 1..256 : writes[p] = 1
        /\ render_in.tag = BarsTag =>
                \A i \in 0..7, x \in 0..1, y \in 0..15 :
                    writes[xy(i * 2 + x, 15 - y) + 1] =
                        IF y < BarPixels(render_in.strengths[i + 1]) THEN 1 ELSE 0
        /\ \A p \in 1..256 : writes[p] = 0 => frame[p] = Black

\* Bars rendered with bars that are neither empty nor full.
C25_Witness ==
    /\ Rendered
    /\ render_in.tag = BarsTag
    /\ \E p \in 1..256 : writes[p] = 0
    /\ \E p \in 1..256 : writes[p] = 1 /\ frame[p] # Black

\* The processing loop handles a slice: it was at receive() and goes to the
\* top of the loop, or the call recorded is a new one.
SliceStep ==
    /\ proc_pc = "receive"
    /\ unit'.fn = "process_audio_samples"
    /\ proc_pc' = "check" \/ unit' # unit

\* C27: for every buffer whose length is not a multiple of 8,
\* process_audio_samples returns an error, no framebuffer is published for
\* that block, the task's current config is unchanged, and the task goes on
\* to the top of its loop for the next block.
C27_BadLengthSkipsBlock ==
    [][(SliceStep /\ unit'.arg % 8 # 0) =>
            /\ ~unit'.out.ok
            /\ published' = published
            /\ neopixel_signal' = neopixel_signal
            /\ current_config' = current_config
            /\ proc_pc' = "check"
            /\ phase' = phase]_vars

\* A 7-byte buffer was refused and the task is back at the top of its loop
\* after having published a frame before.
C27_Witness ==
    /\ unit.fn = "process_audio_samples"
    /\ unit.arg = 7
    /\ ~unit.out.ok
    /\ proc_pc = "check"
    /\ Running
    /\ Len(published) = 1

\* The packet numbers of a sequence of packets, blocks or boxes.
Ids(seq) == [i \in 1..Len(seq) |-> seq[i].id]

\* The packets or blocks of a sequence that hold at least one sample.
WithSamples(seq) == SelectSeq(seq, LAMBDA b : b.words > 0)

\* The blocks in the hands of the two USB tasks: those sent and not yet
\* released, then the one the stream task holds while it waits.
InTransit == zc \o in_hand

\* Never more than the two blocks are held, and the stream task holds a
\* packet exactly while it waits in send().
SlotsRespected ==
    /\ Len(zc) <= SlotCount
    /\ stream_pc = "send" <=> in_hand # None

\* The stream task starts to wait in send() only when both blocks are
\* occupied, and a block sent is changed by no step: blocks are added at the
\* back and released at the front.
SlotsStep ==
    /\ (stream_pc # "send" /\ stream_pc' = "send") => (Len(zc) = SlotCount /\ zc' = zc)
    /\ \/ zc' = zc
       \/ zc # <<>> /\ zc' = Tail(zc)
       \/ zc' # <<>> /\ zc = SubSeq(zc', 1, Len(zc') - 1)

\* C28 as stated: every well-formed packet read is delivered to the
\* processing task exactly once and in arrival order (it has been delivered,
\* or is queued behind what has been), and the two blocks are respected.
C28_EveryPacketDelivered ==
    /\ [](/\ Ids(arrived) = Ids(delivered) \o Ids(audio_channel) \o Ids(InTransit)
           /\ SlotsRespected)
    /\ [][SlotsStep]_vars

\* C28: every well-formed packet that holds at least one sample is delivered
\* to the processing task exactly once and in arrival order; the stream task
\* waits while both blocks are occupied and at most 2 blocks are ever held.
C28_NonEmptyPacketsDelivered ==
    /\ [](/\ Ids(WithSamples(arrived)) =
                Ids(delivered) \o Ids(audio_channel) \o Ids(WithSamples(InTransit))
           /\ SlotsRespected)
    /\ [][SlotsStep]_vars

\* The stream task waits with a third packet while both blocks are
\* occupied, and an earlier packet has reached the processing task.
C28_Witness ==
    /\ stream_pc = "send"
    /\ Len(zc) = SlotCount
    /\ in_hand # None
    /\ delivered # <<>>

\* The stream handler returns or starts, or the host opens or closes the
\* stream.
ConnectionStep ==
    \/ usb_link' # usb_link
    \/ stream_pc' # stream_pc /\ "wait_connection" \in {stream_pc, stream_pc'}

\* C29: a disconnect and a reconnect of the stream leave the queued blocks
\* where they are, so that they are still delivered in order; no block is
\* held by the stream task outside send(), and all blocks not queued are
\* free for the next packets.
C29_ReconnectKeepsBlocks ==
    /\ [](/\ Ids(WithSamples(arrived)) =
                Ids(delivered) \o Ids(audio_channel) \o Ids(WithSamples(InTransit))
           /\ stream_pc \in {"wait_connection", "read"} => in_hand = None
           /\ send_ready(zc) <=> Len(zc) < SlotCount)
    /\ [][ConnectionStep => UNCHANGED <<zc, in_hand, audio_channel, delivered>>]_vars

\* After a reconnect both blocks hold packets of the second connection, and
\* a packet of the first connection and one of the second have been
\* delivered.
C29_Witness ==
    /\ sessions = 2
    /\ Len(zc) = SlotCount
    /\ \A i \in 1..Len(zc) : zc[i].session = 2
    /\ \E i \in 1..Len(delivered) : arrived[delivered[i].id].session = 1
    /\ \E i \in 1..Len(delivered) : arrived[delivered[i].id].session = 2

\* C30: a connection's tasks start only out of advertise(), one connection
\* at a time; run() is in advertise() again only after the connection is
\* down and its tasks have ended; and after every disconnect run()
\* eventually advertises again.
C30_OneCentralAndReadvertise ==
    /\ [][/\ (phase' = "connected" /\ phase # "connected") =>
                (phase = "advertising" /\ link' = "up" /\ pc' = "next" /\ custom_pc' = "rssi")
          /\ (link' = "up" /\ link # "up") => (phase = "advertising" /\ phase' = "connected")
          /\ (phase' = "advertising" /\ phase # "advertising") =>
                (phase = "connected" /\ link = "down")]_vars
    /\ [](phase = "advertising" => link # "up")
    /\ ((phase = "connected" /\ link = "down") ~> (phase = "advertising"))

\* run() advertises again after a connection on which the central wrote a
\* config and which then went down.
C30_Witness ==
    /\ phase = "advertising"
    /\ link = "down"
    /\ last_event = "write_config_data"

\* C31: once a config has been signalled, every frame computed from a block
\* the processing task receives after that is rendered with that config or
\* a later one: a frame is rendered with the config waiting in the signal
\* when its block is received, if there is one.
C31_FrameUsesSignalledConfig ==
    [][published' # published =>
            published'[Len(published')].config =
                IF IsSome(config_signal) THEN config_signal[1] ELSE current_config[1]]_vars

\* C32: every block on which the processing task runs the FFT holds 256
\* stereo samples (2048 bytes) received from the host: the box a published
\* frame was computed from was filled to its end by the receiver task.
C32_ProcessedBlocksFull ==
    \A i \in 1..Len(published) :
        /\ published[i].block <= Len(delivered)
        /\ delivered[published[i].block].buffer_pos = SliceLen

\* C33 as stated: at every point between two GATT events of a connection,
\* the published ota_status is IN_PROGRESS if and only if an updater exists.
C33_StatusTracksUpdater ==
    phase = "connected"
        => (ota_status = OTA_STATUS_IN_PROGRESS <=> IsSome(ota_state.ota_updater))

\* C34: between GATT events the updater exists if and only if the hasher
\* exists, and an existing updater implies that the expected hash is set;
\* hence commit_ota, called in any such state, does not fail with "Hasher
\* not initialized" or with "Expected hash not set".
C34_UpdaterHasherHashTogether ==
    phase = "connected"
        => /\ IsSome(ota_state.ota_updater) <=> IsSome(ota_state.hasher)
           /\ IsSome(ota_state.ota_updater) => IsSome(ota_state.expected_hash)
           /\ \A complete_ok \in BOOLEAN :
                commit_ota(ota_state, complete_ok).err
                    \notin {"Hasher not initialized", "Expected hash not set"}

\* A Commit has reached the hash comparison of an update that had received
\* data, and failed there.
C34_Witness ==
    /\ JustHandled("write_ota_control")
    /\ last_data = <<OTA_CMD_COMMIT>>
    /\ begin_accepted
    /\ ota_state.bytes_received > 0
    /\ reply = "UNLIKELY_ERROR"
    /\ fx = <<>>
    /\ IsNone(ota_state.ota_updater)
    /\ IsNone(ota_state.hasher)
    /\ IsSome(ota_state.expected_hash)

\* C35: a Begin received while an updater exists is rejected with
\* UNLIKELY_ERROR and leaves the running transfer intact: the OtaState
\* (updater, hasher, expected hash, bytes_received) is unchanged and no flash
\* call is made; afterwards, with ota_status at ERROR, an ota_data write
\* still reaches the flash write and a Commit whose digest matches still
\* reaches complete().
C35_SecondBeginLeavesTransfer ==
    [][/\ (ControlStep(OTA_CMD_BEGIN) /\ IsSome(ota_state.ota_updater))
            => /\ result' = "UNLIKELY_ERROR"
               /\ ota_state' = ota_state
               /\ fx' = <<>>
               /\ phase' = "connected"
       /\ (/\ HandlerStep("write_ota_data")
           /\ IsSome(ota_state.ota_updater)
           /\ ota_status = OTA_STATUS_ERROR)
            => Called(fx', "write")
       /\ (/\ ControlStep(OTA_CMD_COMMIT)
           /\ IsSome(ota_state.ota_updater)
           /\ ota_status = OTA_STATUS_ERROR
           /\ Some(Sha256Finalize(ota_state.hasher[1])) = ota_state.expected_hash)
            => Called(fx', "complete")]_vars

\* A Begin has been rejected in the middle of a transfer that had received
\* data.
C35_Witness ==
    /\ JustHandled("write_ota_control")
    /\ last_data = <<OTA_CMD_BEGIN>>
    /\ reply = "UNLIKELY_ERROR"
    /\ fx = <<>>
    /\ IsSome(ota_state.ota_updater)
    /\ ota_state.bytes_received > 0
    /\ ota_state.hasher = Some(Sha256Update(Sha256New, ota_state.ota_updater[1]))

\* The transfer has been completed after a Begin was rejected in its course:
\* ota_status was ERROR when the Commit reached the reset.
C35_CompletedAfterSecondBegin ==
    /\ phase = "reset"
    /\ ota_status = OTA_STATUS_ERROR
    /\ fx = <<"complete", "reset">>
    /\ bootable
    /\ ota_state.bytes_received > 0

\* C36 as stated: an ota_data write received while no updater exists is
\* rejected with UNLIKELY_ERROR and leaves the OtaState unchanged; the
\* expected hash written earlier on the connection is still set.
C36_StrayDataLeavesState ==
    [][(HandlerStep("write_ota_data") /\ IsNone(ota_state.ota_updater))
        => /\ result' = "UNLIKELY_ERROR"
           /\ ota_state' = ota_state]_vars

\* C37: after a Commit that was rejected for a hash mismatch the updater and
\* the hasher are none and the expected hash is still set; a Begin that
\* follows it with no ota_hash write in between passes both checks of
\* begin_ota and reaches OtaUpdater::new, and the transfer it starts has
\* bytes_received = 0 and a fresh hasher (it is rejected only if
\* OtaUpdater::new fails).
C37_BeginAfterMismatch ==
    /\ (phase = "connected" /\ since_mismatch = "rejected")
        => /\ result = "UNLIKELY_ERROR"
           /\ IsNone(ota_state.ota_updater)
           /\ IsNone(ota_state.hasher)
           /\ IsSome(ota_state.expected_hash)
    /\ (phase = "connected" /\ since_mismatch = "begun")
        => /\ fx = <<"new">>
           /\ IsSome(ota_state.expected_hash)
           /\ \/ /\ result = "ACCEPT"
                 /\ ota_status = OTA_STATUS_IN_PROGRESS
                 /\ ota_state.ota_updater = Some(<<>>)
                 /\ ota_state.bytes_received = 0
                 /\ ota_state.hasher = Some(Sha256New)
              \/ /\ result = "UNLIKELY_ERROR"
                 /\ IsNone(ota_state.ota_updater)
                 /\ IsNone(ota_state.hasher)

\* A Begin has been accepted right after a Commit that failed the hash
\* comparison, on the hash written before the first Begin.
C37_Witness ==
    /\ JustHandled("write_ota_control")
    /\ last_data = <<OTA_CMD_BEGIN>>
    /\ since_mismatch = "begun"
    /\ reply = "ACCEPT"
    /\ ota_state.ota_updater = Some(<<>>)
    /\ ota_state.bytes_received = 0
    /\ ota_state.hasher = Some(Sha256New)
    /\ ota_state.expected_hash = Some(ota_hash)

\* C38: on every new connection the expected hash starts unset and stays
\* unset until an ota_hash write is accepted on that connection; until then
\* a Begin is rejected and creates no updater, also when the ota_hash
\* characteristic still holds the 32 bytes written on an earlier connection.
C38_HashUnsetOnNewConnection ==
    /\ []((phase = "connected" /\ ~hash_accepted)
            => /\ IsNone(ota_state.expected_hash)
               /\ IsNone(ota_state.ota_updater))
    /\ [][(ControlStep(OTA_CMD_BEGIN) /\ ~hash_accepted /\ Len(ota_hash) = HashLen)
            => /\ result' = "UNLIKELY_ERROR"
               /\ fx' = <<>>
               /\ ota_state' = ota_state]_vars

\* A Begin has been rejected on a connection on which the central has read
\* back, but not written, the hash of an earlier connection.
C38_Witness ==
    /\ JustHandled("write_ota_control")
    /\ last_data = <<OTA_CMD_BEGIN>>
    /\ ~hash_accepted
    /\ Len(ota_hash) = HashLen
    /\ reply = "UNLIKELY_ERROR"
    /\ IsNone(ota_state.expected_hash)
    /\ IsNone(ota_state.ota_updater)

\* C39: a 32-byte ota_hash write accepted while an update is in progress
\* replaces the expected hash and leaves the updater, the hasher and
\* bytes_received unchanged; the Commit that follows compares the digest
\* with the hash written last: it reaches complete() if and only if the
\* digest of the received bytes equals that hash.
C39_HashReplacedDuringUpdate ==
    [][/\ (/\ HandlerStep("write_ota_hash")
           /\ Len(last_data') = HashLen
           /\ IsSome(ota_state.ota_updater))
            => /\ result' = "ACCEPT"
               /\ ota_state' = [ota_state EXCEPT !.expected_hash = Some(last_data')]
               /\ ota_hash' = last_data'
               /\ ota_status' = ota_status
       /\ (/\ ControlStep(OTA_CMD_COMMIT)
           /\ IsSome(ota_state.ota_updater)
           /\ last_event = "write_ota_hash"
           /\ result = "ACCEPT")
            => (Called(fx', "complete")
                    <=> Sha256Finalize(ota_state.hasher[1]) = last_data)]_vars

\* An ota_hash write has been accepted during an update that had received
\* data: the expected hash is now the digest of the bytes received.
C39_Witness ==
    /\ JustHandled("write_ota_hash")
    /\ reply = "ACCEPT"
    /\ IsSome(ota_state.ota_updater)
    /\ ota_state.bytes_received > 0
    /\ ota_state.expected_hash = Some(last_data)
    /\ last_data = Sha256Finalize(ota_state.hasher[1])

\* The framebuffer the LED driver's loop took last is the one published last.
LastTransmitted ==
    transmitted # <<>> /\ transmitted[Len(transmitted)].block = Len(published)

\* C40: once the startup demo has ended and a framebuffer has been
\* published, the LED driver eventually has transmitted the framebuffer
\* published last, so that a framebuffer after which nothing more is
\* published is eventually transmitted; and no published framebuffer is
\* transmitted before the demo has ended.
C40_LastFrameTransmitted ==
    /\ [](led_pc \in {"demo", "demo_write"} => transmitted = <<>>)
    /\ (published # <<>> /\ led_pc \in {"wait", "write"}) ~> LastTransmitted

\* Two framebuffers were published before the driver's loop first looked at
\* the signal; the second has been transmitted, the first never was.
C40_Witness ==
    /\ Len(published) = 2
    /\ transmitted = <<published[2]>>
    /\ neopixel_signal = None
    /\ led_pc = "wait"

====
